---- MODULE Spec2Model ----
(***************************************************************************)
(* Context protocol of fast-element-context: ContextConsumer,              *)
(* ContextProvider and the ValueNotifier the provider extends.             *)
(*                                                                         *)
(* The DOM is a fixed composed tree of elements.  Events are dispatched    *)
(* synchronously: a dispatch runs the listeners of every element on the    *)
(* path from the originating element to the root until a listener stops    *)
(* the propagation, so every operation of the library is one atomic step.  *)
(***************************************************************************)
EXTENDS Integers, Sequences, FiniteSets, TLC

\* ------------------------------------------------------------------ bounds

\* Context values are 1..MaxVal
MaxVal == 2

\* The requests a retained request of the ContextRoot stands for are counted up
\* to MaxAsked
MaxAsked == 2

\* -------------------------------------------------------------- the DOM

\* A scenario is a DOM tree with the controllers constructed on its elements:
\*   parent[e]  the parent of element e in the composed tree (NoElement: none)
\*   shadow     the elements that live in the shadow root of their parent
\*   phost[p]   the element provider p is constructed on (this.host)
\*   pctx[p]    options.context of provider p
\*   chost[c]   the element consumer c is bound to (this.host)
\*   cctx[c]    options.context of consumer c
\*   csub[c]    options.subscribe ?? false
\*   pinit[p]   the value of the provided property when the provider is made
\*              (options.initialValue of a provider constructed directly)
\*   wired      the providers made by defineProvider: "no" none of them,
\*              "initial" by the defineProvider that passes the property's value
\*              as initialValue, "bare" by the one that passes no initialValue
\*   root       the element a ContextRoot is attached to (NoElement: none)
NoElement == 0

\* late-provider_test.ts, 'a provider that upgrades after an ancestor provider':
\*   1 [P1] -- 2 [P2] -- 3 [cS]
\*          `- 4 [cT]
Late ==
    [name |-> "late", root |-> 0, wired |-> "no",
     pinit |-> [P1 |-> 1, P2 |-> 1], parent |-> <<0, 1, 2, 1>>, shadow |-> {},
     phost |-> [P1 |-> 1, P2 |-> 2], pctx |-> [P1 |-> "ctxA", P2 |-> "ctxA"],
     chost |-> [cS |-> 3, cT |-> 4], cctx |-> [cS |-> "ctxA", cT |-> "ctxA"],
     csub |-> [cS |-> TRUE, cT |-> TRUE]]

\* provider-and-consumer_test.ts: an element that consumes and provides
\*   1 [P1] -- 2 [P2, cB] -- 3 [cS]
Self ==
    [name |-> "self", root |-> 0, wired |-> "no",
     pinit |-> [P1 |-> 1, P2 |-> 1], parent |-> <<0, 1, 2>>, shadow |-> {},
     phost |-> [P1 |-> 1, P2 |-> 2], pctx |-> [P1 |-> "ctxA", P2 |-> "ctxA"],
     chost |-> [cB |-> 2, cS |-> 3], cctx |-> [cB |-> "ctxA", cS |-> "ctxA"],
     csub |-> [cB |-> TRUE, cS |-> TRUE]]

\* provide_test.ts and provider-consumer_test.ts: consumers in the shadow root
\* of the provider's host, one subscribed and one one-shot
\*   1 [P1] -- 2 [P2] -- (shadow root) 3 [cS, cO]
Shadow ==
    [name |-> "shadow", root |-> 0, wired |-> "no",
     pinit |-> [P1 |-> 1, P2 |-> 1], parent |-> <<0, 1, 2>>, shadow |-> {3},
     phost |-> [P1 |-> 1, P2 |-> 2], pctx |-> [P1 |-> "ctxA", P2 |-> "ctxA"],
     chost |-> [cS |-> 3, cO |-> 3], cctx |-> [cS |-> "ctxA", cO |-> "ctxA"],
     csub |-> [cS |-> TRUE, cO |-> FALSE]]

\* context-provider_test.ts, 'multiple instances': sibling provider/consumer pairs
\*   1 -- 2 [P1] -- 4 [cS]
\*     `- 3 [P2] -- 5 [cT]
Siblings ==
    [name |-> "siblings", root |-> 0, wired |-> "no",
     pinit |-> [P1 |-> 1, P2 |-> 1], parent |-> <<0, 1, 1, 2, 3>>, shadow |-> {},
     phost |-> [P1 |-> 2, P2 |-> 3], pctx |-> [P1 |-> "ctxA", P2 |-> "ctxA"],
     chost |-> [cS |-> 4, cT |-> 5], cctx |-> [cS |-> "ctxA", cT |-> "ctxA"],
     csub |-> [cS |-> TRUE, cT |-> TRUE]]

\* three nested providers above one consumer
\*   1 [P1] -- 2 [P2] -- 3 [P3] -- 4 [cS]
Deep ==
    [name |-> "deep", root |-> 0, wired |-> "no",
     pinit |-> [P1 |-> 1, P2 |-> 1, P3 |-> 1], parent |-> <<0, 1, 2, 3>>, shadow |-> {},
     phost |-> [P1 |-> 1, P2 |-> 2, P3 |-> 3],
     pctx |-> [P1 |-> "ctxA", P2 |-> "ctxA", P3 |-> "ctxA"],
     chost |-> [cS |-> 4], cctx |-> [cS |-> "ctxA"], csub |-> [cS |-> TRUE]]

\* late-provider_test.ts, 'handles late upgrade properly': a ContextRoot on the
\* container, a provider that connects late, and a subscribing and a one-shot
\* consumer on one element
\*   1 (root) -- 2 [P1] -- 3 [cS, cO]
RootOnce ==
    [name |-> "rootonce", root |-> 1, wired |-> "no",
     pinit |-> [P1 |-> 1], parent |-> <<0, 1, 2>>, shadow |-> {},
     phost |-> [P1 |-> 2], pctx |-> [P1 |-> "ctxA"],
     chost |-> [cS |-> 3, cO |-> 3], cctx |-> [cS |-> "ctxA", cO |-> "ctxA"],
     csub |-> [cS |-> TRUE, cO |-> FALSE]]

\* late-provider_test.ts, 'late element with multiple properties': the same
\* with two subscribing consumers on one element
\*   1 (root) -- 2 [P1] -- 3 [cS, cT]
RootPair ==
    [name |-> "rootpair", root |-> 1, wired |-> "no",
     pinit |-> [P1 |-> 1], parent |-> <<0, 1, 2>>, shadow |-> {},
     phost |-> [P1 |-> 2], pctx |-> [P1 |-> "ctxA"],
     chost |-> [cS |-> 3, cT |-> 3], cctx |-> [cS |-> "ctxA", cT |-> "ctxA"],
     csub |-> [cS |-> TRUE, cT |-> TRUE]]

\* a Context Root above two nested providers, one consumer under both and one
\* consumer outside them
\*   1 (root) -- 2 [P1] -- 3 [P2] -- 4 [cS]
\*            \- 5 [cT]
RootNested ==
    [name |-> "rootnested", root |-> 1, wired |-> "no",
     pinit |-> [P1 |-> 1, P2 |-> 2], parent |-> <<0, 1, 2, 3, 1>>, shadow |-> {},
     phost |-> [P1 |-> 2, P2 |-> 3], pctx |-> [P1 |-> "ctxA", P2 |-> "ctxA"],
     chost |-> [cS |-> 4, cT |-> 5], cctx |-> [cS |-> "ctxA", cT |-> "ctxA"],
     csub |-> [cS |-> TRUE, cT |-> TRUE]]

\* two providers of one context on the same host element
\*   1 [P1] -- 2 [P2, P3] -- 3 [cS]
Twin ==
    [name |-> "twin", root |-> 0, wired |-> "no",
     pinit |-> [P1 |-> 1, P2 |-> 1, P3 |-> 1], parent |-> <<0, 1, 2>>, shadow |-> {},
     phost |-> [P1 |-> 1, P2 |-> 2, P3 |-> 2],
     pctx |-> [P1 |-> "ctxA", P2 |-> "ctxA", P3 |-> "ctxA"],
     chost |-> [cS |-> 3], cctx |-> [cS |-> "ctxA"], csub |-> [cS |-> TRUE]]

\* two providers of one context on one host element above a consumer and a
\* third provider beside the consumer
\*   1 [P1, P2] -- 2 [cS]
\*              \- 3 [P3]
TwinAbove ==
    [name |-> "twinabove", root |-> 0, wired |-> "no",
     pinit |-> [P1 |-> 1, P2 |-> 1, P3 |-> 1], parent |-> <<0, 1, 1>>, shadow |-> {},
     phost |-> [P1 |-> 1, P2 |-> 1, P3 |-> 3],
     pctx |-> [P1 |-> "ctxA", P2 |-> "ctxA", P3 |-> "ctxA"],
     chost |-> [cS |-> 2], cctx |-> [cS |-> "ctxA"], csub |-> [cS |-> TRUE]]

\* a provider of another context between a consumer and its provider
\*   1 [P1: ctxA] -- 2 [P2: ctxB] -- 3 [cS: ctxA]
Mixed ==
    [name |-> "mixed", root |-> 0, wired |-> "no",
     pinit |-> [P1 |-> 1, P2 |-> 1], parent |-> <<0, 1, 2>>, shadow |-> {},
     phost |-> [P1 |-> 1, P2 |-> 2], pctx |-> [P1 |-> "ctxA", P2 |-> "ctxB"],
     chost |-> [cS |-> 3], cctx |-> [cS |-> "ctxA"], csub |-> [cS |-> TRUE]]

\* a provider of another context between two nested providers of one context
\*   1 [P1: ctxA] -- 2 [P2: ctxB] -- 3 [P3: ctxA] -- 4 [cS: ctxA]
Between ==
    [name |-> "between", root |-> 0, wired |-> "no",
     pinit |-> [P1 |-> 1, P2 |-> 1, P3 |-> 2], parent |-> <<0, 1, 2, 3>>, shadow |-> {},
     phost |-> [P1 |-> 1, P2 |-> 2, P3 |-> 3],
     pctx |-> [P1 |-> "ctxA", P2 |-> "ctxB", P3 |-> "ctxA"],
     chost |-> [cS |-> 4], cctx |-> [cS |-> "ctxA"], csub |-> [cS |-> TRUE]]

\* context-provider_test.ts, 'consuming and providing with optional fields':
\* providers of two contexts on one host, consumers of each below it
\*   1 [P1: ctxA, P2: ctxB] -- 2 [cS: ctxA, cT: ctxB]
Pair ==
    [name |-> "pair", root |-> 0, wired |-> "no",
     pinit |-> [P1 |-> 1, P2 |-> 1], parent |-> <<0, 1>>, shadow |-> {},
     phost |-> [P1 |-> 1, P2 |-> 1], pctx |-> [P1 |-> "ctxA", P2 |-> "ctxB"],
     chost |-> [cS |-> 2, cT |-> 2], cctx |-> [cS |-> "ctxA", cT |-> "ctxB"],
     csub |-> [cS |-> TRUE, cT |-> TRUE]]

\* context-provider_test.ts, '@consume': a property wrapped by defineProvider
\* (the one that passes initialValue) above properties wired by defineConsumer
\*   1 [P1] -- 2 [cS, cO]
WiredInitial ==
    [name |-> "wiredinitial", root |-> 0, wired |-> "initial",
     pinit |-> [P1 |-> 1], parent |-> <<0, 1>>, shadow |-> {},
     phost |-> [P1 |-> 1], pctx |-> [P1 |-> "ctxA"],
     chost |-> [cS |-> 2, cO |-> 2], cctx |-> [cS |-> "ctxA", cO |-> "ctxA"],
     csub |-> [cS |-> TRUE, cO |-> FALSE]]

\* context-request_test.ts, 'htmlelement-context-provider': a provider
\* constructed on a plain container element above a subscribing and a one-shot
\* consumer
\*   1 [P1] -- 2 [cS, cO]
Plain == [WiredInitial EXCEPT !.name = "plain", !.wired = "no"]

\* the same with the defineProvider that passes {context} only
WiredBare == [WiredInitial EXCEPT !.name = "wiredbare", !.wired = "bare"]

Scenarios == {Late, Self, Shadow, Siblings, Deep, RootOnce, RootPair, RootNested,
              Twin, TwinAbove, Mixed, Between, Pair, WiredInitial, WiredBare, Plain}

Values == 1..MaxVal

\* `undefined`: the value of a consumer that was never delivered to
Undef == 0

\* the absent unsubscribe handle (`undefined`)
NoHandle == [p |-> "none", cb |-> "none", gen |-> 0]

\* ------------------------------------------------------------------ state

VARIABLES
    scn,        \* the DOM tree and the controllers on it
    pending,    \* ContextRoot.pendingContextRequests, in the order they were retained
    hprop,      \* hprop[p]: the host property wrapped by defineProvider
    conn,       \* conn[c]: the host of c is connected (hostConnected came last)
    isConnected, \* host.isConnected: the tree is attached to the document
    isReady,    \* isReady[p]: ContextProvider.isReady
    again,      \* again[p]: the connectionCallback of p called hostConnected while the
                \* listeners were attached, and they were not detached since
    polled,     \* polled[p]: the call the connectionCallback of p made last
    announced,  \* the 'context-provider' events dispatched in the last step, in order
    handlers,   \* the providers whose onProviderRequest did not ignore an
                \* announcement in the last step, in order
    reparented, \* the requests re-dispatched by onProviderRequest in the last step
    replayed,   \* replayed[c]: the requests of c that the request replayed in the last
                \* step stood for (0: none was replayed)
    listeners,  \* listeners[e]: the providers whose two listeners are attached to e, in order
    pvalue,     \* pvalue[p]: ValueNotifier._value
    subs,       \* subs[p]: ValueNotifier.subscriptions, a Map in insertion order
    cvalue,     \* cvalue[c]: ContextConsumer.value
    provided,   \* provided[c]: ContextConsumer.provided
    unsub,      \* unsub[c]: ContextConsumer.unsubscribe
    cbArg,      \* cbArg[c]: the value the user callback was last invoked with
    calls,      \* calls[c]: invocations of the user callback during the last step
    claimed,    \* claimed[c]: the providers that claimed a request of c in the last step
    prev,       \* prev[c]: the provider c left in its latest hand-off, while c holds a handle
    last        \* the last operation: its name and the controller it was called on

vars == <<scn, pending, hprop, conn, isConnected, isReady, polled, again, announced, handlers, reparented, replayed, listeners, pvalue, subs, cvalue, provided, unsub, cbArg, calls,
          claimed, prev, last>>

Elements == DOMAIN scn.parent

Providers == DOMAIN scn.phost

Consumers == DOMAIN scn.chost

Parent(e) == scn.parent[e]

\* this.host of a provider
ProviderHost(p) == scn.phost[p]

\* this.context of a provider
ProviderContext(p) == scn.pctx[p]

\* this.host of a consumer
ConsumerHost(c) == scn.chost[c]

\* this.context of a consumer
ConsumerContext(c) == scn.cctx[c]

\* this.subscribe of a consumer
Subscribe(c) == scn.csub[c]

\* the provider was made by defineProvider(element, name, {context})
Wired(p) == scn.wired # "no"

\* what the getter defineProvider puts on the property returns before the
\* first assignment: part_003 seeds its valueMap with the property's value,
\* helpers.ts leaves it empty
valueMap(p) == IF scn.wired = "initial" THEN scn.pinit[p] ELSE Undef

\* options.initialValue handed to the ValueNotifier: the value given to `new
\* ContextProvider`, the property's value for the defineProvider that reads
\* element[name], nothing for the defineProvider that passes {context} only
InitialValue(p) == IF scn.wired = "bare" THEN Undef ELSE scn.pinit[p]

\* the state as one record, threaded through the synchronous handlers;
\* iterP/iterI is the position of the Map iterator that is running, if any
State == [pending |-> pending, hprop |-> hprop, conn |-> conn,
          isConnected |-> isConnected, isReady |-> isReady, polled |-> polled, again |-> again,
          announced |-> <<>>, handlers |-> <<>>, reparented |-> <<>>, replayed |-> [c \in Consumers |-> 0], listeners |-> listeners, pvalue |-> pvalue, subs |-> subs,
          cvalue |-> cvalue, provided |-> provided, unsub |-> unsub,
          cbArg |-> cbArg, calls |-> [c \in Consumers |-> 0],
          claimed |-> [c \in Consumers |-> <<>>],
          prev |-> prev,
          iterP |-> "none", iterI |-> 0]

\* ------------------------------------------------------------- sequences

IndexOf(seq, cb) == CHOOSE i \in 1..Len(seq) : seq[i].cb = cb

Has(seq, cb) == \E i \in 1..Len(seq) : seq[i].cb = cb

RemoveAt(seq, i) == [j \in 1..(Len(seq) - 1) |-> IF j < i THEN seq[j] ELSE seq[j + 1]]

Contains(seq, x) == \E i \in 1..Len(seq) : seq[i] = x

Without(seq, x) == SelectSeq(seq, LAMBDA y : y # x)

\* ------------------------------------------------------- ContextConsumer

\* the unsubscribe handle of a subscription: () => subscriptions.delete(callback)
Disposer(s, h) ==
    IF ~Has(s.subs[h.p], h.cb) THEN s
    ELSE LET i == IndexOf(s.subs[h.p], h.cb)
         IN [s EXCEPT !.subs[h.p] = RemoveAt(@, i),
                      !.iterI = IF s.iterP = h.p /\ i <= @ THEN @ - 1 ELSE @]

\* this.callback(value, unsubscribe): the user's callback, recorded
UserCallback(s, c, value) ==
    [s EXCEPT !.calls[c] = @ + 1, !.cbArg[c] = value]

\* every delivery to a consumer that holds a handle taken for a hand-off
HandOff_Always(s, c, unsubscribe) ==
    s.unsub[c] # NoHandle

\* the comparison of the handles inverted: `this.unsubscribe === unsubscribe`
HandOff_Inverted(s, c, unsubscribe) ==
    s.unsub[c] # NoHandle /\ s.unsub[c] = unsubscribe

\* `this.unsubscribe !== unsubscribe` with a handle held: the provider changed
HandOff(s, c, unsubscribe) ==
    s.unsub[c] # NoHandle /\ s.unsub[c] # unsubscribe

\* _callback that invokes the user callback only while not yet provided
ConsumerCallback_OnlyFirst(s, c, value, unsubscribe) ==
    LET held == s.unsub[c]
        s1 == IF HandOff(s, c, unsubscribe)
              THEN Disposer([s EXCEPT !.provided[c] = FALSE, !.prev[c] = held.p], held)
              ELSE s
        s2 == IF held # NoHandle /\ ~Subscribe(c) THEN Disposer(s1, held) ELSE s1
        s3 == [s2 EXCEPT !.cvalue[c] = value]
        s4 == IF ~s3.provided[c]
              THEN UserCallback([s3 EXCEPT !.provided[c] = TRUE], c, value)
              ELSE s3
    IN [s4 EXCEPT !.unsub[c] = unsubscribe]

\* _callback that does not clean up the old provider on a hand-off
ConsumerCallback_NoCleanup(s, c, value, unsubscribe) ==
    LET held == s.unsub[c]
        s1 == IF HandOff(s, c, unsubscribe)
              THEN [s EXCEPT !.provided[c] = FALSE, !.prev[c] = held.p]
              ELSE s
        s2 == IF held # NoHandle /\ ~Subscribe(c) THEN Disposer(s1, held) ELSE s1
        s3 == [s2 EXCEPT !.cvalue[c] = value]
        s4 == IF ~s3.provided[c] \/ Subscribe(c)
              THEN UserCallback([s3 EXCEPT !.provided[c] = TRUE], c, value)
              ELSE s3
    IN [s4 EXCEPT !.unsub[c] = unsubscribe]

\* _callback that does not store the handle it received
ConsumerCallback_NoStore(s, c, value, unsubscribe) ==
    LET held == s.unsub[c]
        s1 == IF HandOff(s, c, unsubscribe)
              THEN Disposer([s EXCEPT !.provided[c] = FALSE, !.prev[c] = held.p], held)
              ELSE s
        s2 == IF held # NoHandle /\ ~Subscribe(c) THEN Disposer(s1, held) ELSE s1
        s3 == [s2 EXCEPT !.cvalue[c] = value]
    IN IF ~s3.provided[c] \/ Subscribe(c)
       THEN UserCallback([s3 EXCEPT !.provided[c] = TRUE], c, value)
       ELSE s3

\* _callback that invokes the user callback on every delivery
ConsumerCallback_AlwaysInvoke(s, c, value, unsubscribe) ==
    LET held == s.unsub[c]
        s1 == IF HandOff(s, c, unsubscribe)
              THEN Disposer([s EXCEPT !.provided[c] = FALSE, !.prev[c] = held.p], held)
              ELSE s
        s2 == IF held # NoHandle /\ ~Subscribe(c) THEN Disposer(s1, held) ELSE s1
        s3 == [s2 EXCEPT !.cvalue[c] = value, !.provided[c] = TRUE]
    IN [UserCallback(s3, c, value) EXCEPT !.unsub[c] = unsubscribe]

\* _callback that stores the value only when it invokes the user callback
ConsumerCallback_StoreWhenInvoked(s, c, value, unsubscribe) ==
    LET held == s.unsub[c]
        s1 == IF HandOff(s, c, unsubscribe)
              THEN Disposer([s EXCEPT !.provided[c] = FALSE, !.prev[c] = held.p], held)
              ELSE s
        s2 == IF held # NoHandle /\ ~Subscribe(c) THEN Disposer(s1, held) ELSE s1
        s4 == IF ~s2.provided[c] \/ Subscribe(c)
              THEN UserCallback([s2 EXCEPT !.provided[c] = TRUE, !.cvalue[c] = value], c, value)
              ELSE s2
    IN [s4 EXCEPT !.unsub[c] = unsubscribe]

\* the cleanup that calls this.unsubscribe after the new handle was stored
CleanupOldProvider_StoreFirst(s, c, unsubscribe) ==
    IF HandOff(s, c, unsubscribe)
    THEN Disposer([s EXCEPT !.provided[c] = FALSE, !.prev[c] = s.unsub[c].p,
                            !.unsub[c] = unsubscribe], unsubscribe)
    ELSE s

\* _callback, `if (this.unsubscribe !== unsubscribe)`: cleanup of the old
\* provider: this.provided = false; this.unsubscribe()
CleanupOldProvider(s, c, unsubscribe) ==
    IF HandOff(s, c, unsubscribe)
    THEN Disposer([s EXCEPT !.provided[c] = FALSE, !.prev[c] = s.unsub[c].p], s.unsub[c])
    ELSE s

\* ContextConsumer._callback
ConsumerCallback(s, c, value, unsubscribe) ==
    LET held == s.unsub[c]
        s1 == CleanupOldProvider(s, c, unsubscribe)
        s2 == IF held # NoHandle /\ ~Subscribe(c) THEN Disposer(s1, held) ELSE s1
        s3 == [s2 EXCEPT !.cvalue[c] = value]
        s4 == IF ~s3.provided[c] \/ Subscribe(c)
              THEN UserCallback([s3 EXCEPT !.provided[c] = TRUE], c, value)
              ELSE s3
    IN [s4 EXCEPT !.unsub[c] = unsubscribe]

\* --------------------------------------------------------- ValueNotifier

\* a disposer is created with the registration it removes; it differs from
\* every handle that exists, and the only holder of a handle for (p, cb) is
\* the consumer cb
FreshGen(s, p, cb) == IF s.unsub[cb].p = p /\ s.unsub[cb].gen = 0 THEN 1 ELSE 0

\* addCallback that registers anew without looking the callback up
addCallback_NoLookup(s, p, cb, consumerHost, subscribe) ==
    IF ~subscribe
    THEN ConsumerCallback(s, cb, s.pvalue[p], NoHandle)
    ELSE LET g == FreshGen(s, p, cb)
         IN ConsumerCallback([s EXCEPT !.subs[p] = Append(@,
                                  [cb |-> cb, host |-> consumerHost, gen |-> g])],
                             cb, s.pvalue[p], [p |-> p, cb |-> cb, gen |-> g])

\* ValueNotifier.addCallback(callback, consumerHost, subscribe)
addCallback(s, p, cb, consumerHost, subscribe) ==
    IF ~subscribe
    THEN ConsumerCallback(s, cb, s.pvalue[p], NoHandle)
    ELSE LET s1 == IF Has(s.subs[p], cb) THEN s
                   ELSE [s EXCEPT !.subs[p] = Append(@,
                            [cb |-> cb, host |-> consumerHost, gen |-> FreshGen(s, p, cb)])]
             e == s1.subs[p][IndexOf(s1.subs[p], cb)]
         IN ConsumerCallback(s1, cb, s1.pvalue[p], [p |-> p, cb |-> cb, gen |-> e.gen])

\* ValueNotifier.updateObservers: for (const [callback, {disposer}] of subscriptions)
RECURSIVE updateObserversLoop(_, _)
updateObserversLoop(s, p) ==
    IF s.iterI >= Len(s.subs[p]) THEN s
    ELSE LET i == s.iterI + 1
             e == s.subs[p][i]
             s0 == [s EXCEPT !.iterI = i]
         IN updateObserversLoop(
                ConsumerCallback(s0, e.cb, s0.pvalue[p], [p |-> p, cb |-> e.cb, gen |-> e.gen]), p)

updateObservers(s, p) ==
    [updateObserversLoop([s EXCEPT !.iterP = p, !.iterI = 0], p)
        EXCEPT !.iterP = "none", !.iterI = 0]

\* ValueNotifier.setValue(v); force: the observers are updated although the
\* value did not change
setValue(s, p, v, force) ==
    LET update == force \/ v # s.pvalue[p]
        s1 == [s EXCEPT !.pvalue[p] = v]
    IN IF update THEN updateObservers(s1, p) ELSE s1

\* ------------------------------------------------------- ContextProvider

\* ev.target as a listener on element e sees it: an event that leaves a shadow
\* root is retargeted to the host of that shadow root
RECURSIVE EventTarget(_, _, _)
EventTarget(target, n, e) ==
    IF n = e \/ Parent(n) = NoElement THEN target
    ELSE EventTarget(IF n \in scn.shadow THEN Parent(n) ELSE target, Parent(n), e)

\* the consumer host taken from ev.target instead of the composed path
ComposedPathHead_Target(ev, e) == EventTarget(ev.origin, ev.origin, e)

\* ev.composedPath()[0] of an event seen by a listener on element e; shadow
\* roots are open (the default of FASTElement), so the path starts at the
\* element the event was dispatched on
ComposedPathHead(ev, e) == ev.origin

\* onContextRequest that answers requests of any context
onContextRequest_AnyContext(s, p, ev, e) ==
    LET consumerHost == ComposedPathHead(ev, e)
    IN IF consumerHost = ProviderHost(p)
       THEN [s |-> s, stopped |-> FALSE]
       ELSE [s |-> addCallback([s EXCEPT !.claimed[ev.callback] = Append(@, p)],
                               p, ev.callback, consumerHost, ev.subscribe),
             stopped |-> TRUE]

\* onContextRequest that stops the event and answers it later
onContextRequest_StopOnly(s, p, ev, e) ==
    LET consumerHost == ComposedPathHead(ev, e)
    IN IF ev.context # ProviderContext(p) \/ consumerHost = ProviderHost(p)
       THEN [s |-> s, stopped |-> FALSE]
       ELSE [s |-> [s EXCEPT !.claimed[ev.callback] = Append(@, p)], stopped |-> TRUE]

\* onContextRequest without ev.stopPropagation()
onContextRequest_NoStop(s, p, ev, e) ==
    LET consumerHost == ev.origin
    IN IF ev.context # ProviderContext(p) \/ consumerHost = ProviderHost(p)
       THEN [s |-> s, stopped |-> FALSE]
       ELSE [s |-> addCallback([s EXCEPT !.claimed[ev.callback] = Append(@, p)],
                               p, ev.callback, consumerHost, ev.subscribe),
             stopped |-> FALSE]

\* onContextRequest that registers every request as a subscription
onContextRequest_AlwaysSubscribe(s, p, ev, e) ==
    LET consumerHost == ev.origin
    IN IF ev.context # ProviderContext(p) \/ consumerHost = ProviderHost(p)
       THEN [s |-> s, stopped |-> FALSE]
       ELSE [s |-> addCallback([s EXCEPT !.claimed[ev.callback] = Append(@, p)],
                               p, ev.callback, consumerHost, TRUE),
             stopped |-> TRUE]

\* onContextRequest without the check of the consumer host against this.host
onContextRequest_NoHostCheck(s, p, ev, e) ==
    LET consumerHost == ev.origin
    IN IF ev.context # ProviderContext(p)
       THEN [s |-> s, stopped |-> FALSE]
       ELSE [s |-> addCallback([s EXCEPT !.claimed[ev.callback] = Append(@, p)],
                               p, ev.callback, consumerHost, ev.subscribe),
             stopped |-> TRUE]

\* ContextProvider.onContextRequest; stopped: ev.stopPropagation() was called
onContextRequest(s, p, ev, e) ==
    LET consumerHost == ComposedPathHead(ev, e)
    IN IF ev.context # ProviderContext(p) \/ consumerHost = ProviderHost(p)
       THEN [s |-> s, stopped |-> FALSE]
       ELSE [s |-> addCallback([s EXCEPT !.claimed[ev.callback] = Append(@, p)],
                               p, ev.callback, consumerHost, ev.subscribe),
             stopped |-> TRUE]

\* the 'context-request' listeners of one element, in the order they were added
RECURSIVE RequestListeners(_, _, _, _, _)
RequestListeners(s, ev, e, i, stopped) ==
    IF i > Len(s.listeners[e]) THEN [s |-> s, stopped |-> stopped]
    ELSE LET r == onContextRequest(s, s.listeners[e][i], ev, e)
         IN RequestListeners(r.s, ev, e, i + 1, stopped \/ r.stopped)

\* a lookup of the retained requests by (context, element) alone
Pending_PerElement(s, ev) ==
    LET hit == {i \in 1..Len(s.pending) :
                  /\ s.pending[i].context = ev.context
                  /\ s.pending[i].host = ev.origin}
    IN IF hit = {} THEN 0 ELSE CHOOSE i \in hit : TRUE

\* the position of the retained request of (context, element, callback), or 0
Pending(s, ev) ==
    LET hit == {i \in 1..Len(s.pending) :
                  /\ s.pending[i].context = ev.context
                  /\ s.pending[i].host = ev.origin
                  /\ s.pending[i].cb = ev.callback}
    IN IF hit = {} THEN 0 ELSE CHOOSE i \in hit : TRUE

\* onContextRequest of a ContextRoot that retains every request it receives
RootOnContextRequest_NoDedupe(s, ev) ==
    IF ~ev.subscribe \/ Len(s.pending) >= 4 THEN s
    ELSE [s EXCEPT !.pending = Append(@, [context |-> ev.context, host |-> ev.origin,
                                          cb |-> ev.callback, asked |-> 1])]

\* ContextRoot.onContextRequest: a subscribing request that reaches the root is
\* retained once per (context, element, callback); the event is not stopped.
\* asked counts the requests the retained one stands for.
RootOnContextRequest(s, ev) ==
    LET i == Pending(s, ev)
    IN IF ~ev.subscribe THEN s
       ELSE IF i # 0
       THEN [s EXCEPT !.pending[i].asked = IF @ < MaxAsked THEN @ + 1 ELSE @]
       ELSE [s EXCEPT !.pending = Append(@, [context |-> ev.context, host |-> ev.origin,
                                             cb |-> ev.callback, asked |-> 1])]

\* listeners of element e whose stopPropagation has no effect
ElementOnRequest_Unstopped(s, ev, e) ==
    LET r == RequestListeners(s, ev, e, 1, FALSE)
    IN [s |-> IF e = scn.root THEN RootOnContextRequest(r.s, ev) ELSE r.s,
        stopped |-> FALSE]

\* all 'context-request' listeners of element e: those of the providers on
\* it, and that of the ContextRoot attached to it
\* the 'context-request' listener of the ContextRoot attached to e runs after
\* those of the providers on e, whose outcome is r
RootAfterRequest(r, ev, e) ==
    IF e = scn.root THEN [s |-> RootOnContextRequest(r.s, ev), stopped |-> r.stopped]
    ELSE r

ElementOnRequest(s, ev, e) ==
    RootAfterRequest(RequestListeners(s, ev, e, 1, FALSE), ev, e)

\* element.dispatchEvent(new ContextRequestEvent(context, callback, subscribe)):
\* the event bubbles from e to the root unless its propagation is stopped
RECURSIVE BubbleRequest(_, _, _)
BubbleRequest(s, ev, e) ==
    LET r == ElementOnRequest(s, ev, e)
    IN IF r.stopped \/ Parent(e) = NoElement THEN r.s
       ELSE BubbleRequest(r.s, ev, Parent(e))

DispatchRequest(s, origin, context, callback, subscribe) ==
    BubbleRequest(s, [context |-> context, callback |-> callback,
                      subscribe |-> subscribe, origin |-> origin], origin)

\* the loop that skips a callback only once it was re-dispatched twice
RECURSIVE ReparentLoop_Twice(_, _, _)
ReparentLoop_Twice(s, p, seen) ==
    IF s.iterI >= Len(s.subs[p]) THEN s
    ELSE LET i == s.iterI + 1
             e == s.subs[p][i]
             s0 == [s EXCEPT !.iterI = i]
         IN IF Cardinality({j \in 1..Len(s.reparented) :
                               s.reparented[j].by = p /\ s.reparented[j].cb = e.cb}) >= 2
            THEN ReparentLoop_Twice(s0, p, seen)
            ELSE ReparentLoop_Twice(DispatchRequest(
                                  [s0 EXCEPT !.reparented = Append(@,
                                      [by |-> p, cb |-> e.cb, host |-> e.host,
                                       subscribe |-> TRUE])],
                                  e.host, ProviderContext(p), e.cb, TRUE),
                              p, seen \cup {e.cb})

\* the loop of onProviderRequest over this.subscriptions, a live Map iterator
RECURSIVE ReparentLoop(_, _, _)
ReparentLoop(s, p, seen) ==
    IF s.iterI >= Len(s.subs[p]) THEN s
    ELSE LET i == s.iterI + 1
             e == s.subs[p][i]
             s0 == [s EXCEPT !.iterI = i]
         IN IF e.cb \in seen THEN ReparentLoop(s0, p, seen)
            ELSE ReparentLoop(DispatchRequest(
                                  [s0 EXCEPT !.reparented = Append(@,
                                      [by |-> p, cb |-> e.cb, host |-> e.host,
                                       subscribe |-> TRUE])],
                                  e.host, ProviderContext(p), e.cb, TRUE),
                              p, seen \cup {e.cb})

\* onProviderRequest that re-dispatches and lets the announcement go on
onProviderRequest_NoStop(s, p, ev, e) ==
    LET childProviderHost == ComposedPathHead(ev, e)
    IN IF ev.context # ProviderContext(p) \/ childProviderHost = ProviderHost(p)
       THEN [s |-> s, stopped |-> FALSE]
       ELSE [s |-> [ReparentLoop([s EXCEPT !.iterP = p, !.iterI = 0,
                                           !.handlers = Append(@, p)], p, {})
                       EXCEPT !.iterP = "none", !.iterI = 0],
             stopped |-> FALSE]

\* onProviderRequest without the test for the provider's own host
onProviderRequest_NoHostCheck(s, p, ev, e) ==
    IF ev.context # ProviderContext(p)
    THEN [s |-> s, stopped |-> FALSE]
    ELSE [s |-> [ReparentLoop([s EXCEPT !.iterP = p, !.iterI = 0,
                                        !.handlers = Append(@, p)], p, {})
                    EXCEPT !.iterP = "none", !.iterI = 0],
          stopped |-> TRUE]

\* ContextProvider.onProviderRequest
onProviderRequest(s, p, ev, e) ==
    LET childProviderHost == ComposedPathHead(ev, e)
    IN IF ev.context # ProviderContext(p) \/ childProviderHost = ProviderHost(p)
       THEN [s |-> s, stopped |-> FALSE]
       ELSE [s |-> [ReparentLoop([s EXCEPT !.iterP = p, !.iterI = 0,
                                           !.handlers = Append(@, p)], p, {})
                       EXCEPT !.iterP = "none", !.iterI = 0],
             stopped |-> TRUE]

\* the 'context-provider' listeners of one element
RECURSIVE ProviderListeners(_, _, _, _, _)
ProviderListeners(s, ev, e, i, stopped) ==
    IF i > Len(s.listeners[e]) THEN [s |-> s, stopped |-> stopped]
    ELSE LET r == onProviderRequest(s, s.listeners[e][i], ev, e)
         IN ProviderListeners(r.s, ev, e, i + 1, stopped \/ r.stopped)

\* the retained requests of one context re-dispatched from their elements; a
\* request whose element is no longer connected is dropped
RECURSIVE ReplayLoop(_, _, _)
ReplayLoop(s, requests, i) ==
    IF i > Len(requests) THEN s
    ELSE IF ~s.conn[requests[i].cb] THEN ReplayLoop(s, requests, i + 1)
    ELSE ReplayLoop(DispatchRequest([s EXCEPT !.replayed[requests[i].cb] = requests[i].asked],
                                    requests[i].host, requests[i].context,
                                    requests[i].cb, TRUE),
                    requests, i + 1)

\* ContextRoot.onContextProvider: the retained requests of the announced
\* context are taken off the list and replayed; those that stay unsatisfied
\* reach the root again and are retained anew
RootOnContextProvider(s, ev) ==
    LET requests == SelectSeq(s.pending, LAMBDA r : r.context = ev.context)
    IN IF Len(requests) = 0 THEN s
       ELSE ReplayLoop([s EXCEPT !.pending = SelectSeq(@, LAMBDA r : r.context # ev.context)],
                       requests, 1)

\* all 'context-provider' listeners of element e
\* the 'context-provider' listener of the ContextRoot attached to e runs after
\* those of the providers on e, whose outcome is r
RootAfterProvider(r, ev, e) ==
    IF e = scn.root THEN [s |-> RootOnContextProvider(r.s, ev), stopped |-> r.stopped]
    ELSE r

ElementOnProvider(s, ev, e) ==
    RootAfterProvider(ProviderListeners(s, ev, e, 1, FALSE), ev, e)

\* host.dispatchEvent(new ContextProviderEvent(context))
RECURSIVE BubbleProvider(_, _, _)
BubbleProvider(s, ev, e) ==
    LET r == ElementOnProvider(s, ev, e)
    IN IF r.stopped \/ Parent(e) = NoElement THEN r.s
       ELSE BubbleProvider(r.s, ev, Parent(e))

DispatchProvider(s, origin, context) ==
    BubbleProvider([s EXCEPT !.announced = Append(@, [context |-> context, origin |-> origin])],
                   [context |-> context, origin |-> origin], origin)

\* the top element of the tree
RECURSIVE Top(_)
Top(e) == IF Parent(e) = NoElement THEN e ELSE Top(Parent(e))

\* the listeners attached to the top of the document instead of the host
AddListeners_OnTop(s, p) ==
    IF Contains(s.listeners[Top(ProviderHost(p))], p) THEN s
    ELSE [s EXCEPT !.listeners[Top(ProviderHost(p))] = Append(@, p)]

\* addEventListener that adds a listener that is already attached once more
AddListeners_Duplicating(s, p) ==
    [s EXCEPT !.listeners[ProviderHost(p)] = Append(@, p)]

\* host.addEventListener(...) of both listeners: adding a listener twice adds it once
AddListeners(s, p) ==
    IF Contains(s.listeners[ProviderHost(p)], p) THEN s
    ELSE [s EXCEPT !.listeners[ProviderHost(p)] = Append(@, p)]

\* host.removeEventListener(...) of both listeners
RemoveListeners(s, p) ==
    [s EXCEPT !.listeners[ProviderHost(p)] = Without(@, p)]

\* ---------------------------------------------------------------- steps

Commit(s, op, who) ==
    /\ pending' = s.pending
    /\ hprop' = s.hprop
    /\ conn' = s.conn
    /\ isConnected' = s.isConnected
    /\ isReady' = s.isReady
    /\ polled' = s.polled
    /\ again' = [p \in Providers |->
                    s.again[p] /\ Contains(s.listeners[ProviderHost(p)], p)]
    /\ replayed' = s.replayed
    /\ announced' = s.announced
    /\ handlers' = s.handlers
    /\ reparented' = s.reparented
    /\ listeners' = s.listeners
    /\ pvalue' = s.pvalue
    /\ subs' = s.subs
    /\ cvalue' = s.cvalue
    /\ provided' = s.provided
    /\ unsub' = s.unsub
    /\ cbArg' = s.cbArg
    /\ calls' = s.calls
    /\ claimed' = s.claimed
    /\ prev' = s.prev
    /\ last' = [op |-> op, who |-> who]
    /\ UNCHANGED scn

\* hostConnected that announces the provider before it attaches the listeners
hostConnected_AnnounceFirst(s, p) ==
    AddListeners(DispatchProvider(s, ProviderHost(p), ProviderContext(p)), p)

\* hostConnected that attaches the listeners without announcing the provider
hostConnected_Silent(s, p) == AddListeners(s, p)

\* ContextProvider.hostConnected
hostConnected(s, p) ==
    DispatchProvider(AddListeners(s, p), ProviderHost(p), ProviderContext(p))

\* hostDisconnected that also empties the registry
hostDisconnected_Release(s, p) == [RemoveListeners(s, p) EXCEPT !.subs[p] = <<>>]

\* hostDisconnected that leaves the listeners attached
hostDisconnected_KeepListeners(s, p) == s

\* ContextProvider.hostDisconnected
hostDisconnected(s, p) == RemoveListeners(s, p)

\* hostConnected of the provider that is bound as a behavior of a FASTElement
\* (attachListeners is called by bind): it only announces the provider
FastHostConnected(s, p) == DispatchProvider(s, ProviderHost(p), ProviderContext(p))

\* connectionCallback that does not consult isReady
connectionCallback_NoFlag(s, p) ==
    IF s.isConnected
    THEN hostConnected([s EXCEPT !.isReady[p] = TRUE, !.polled[p] = "hostConnected"], p)
    ELSE hostDisconnected([s EXCEPT !.isReady[p] = FALSE, !.polled[p] = "hostDisconnected"], p)

\* the connectionCallback the constructor hands to the ResizeObserver of a
\* host that is not a FASTElement
connectionCallback(s, p) ==
    IF s.isConnected
    THEN IF ~s.isReady[p]
         THEN hostConnected([s EXCEPT !.isReady[p] = TRUE, !.polled[p] = "hostConnected"], p)
         ELSE s
    ELSE IF s.isReady[p]
         THEN hostDisconnected([s EXCEPT !.isReady[p] = FALSE,
                                         !.polled[p] = "hostDisconnected"], p)
         ELSE s

\* dispatchRequest that calls the user back with `undefined` when no provider
\* answered
dispatchRequest_Unanswered(s, c) ==
    LET r == DispatchRequest(s, ConsumerHost(c), ConsumerContext(c), c, Subscribe(c))
    IN IF r.claimed[c] = <<>> THEN UserCallback(r, c, Undef) ELSE r

\* dispatchRequest that always asks for a subscription
dispatchRequest_Subscribing(s, c) ==
    DispatchRequest(s, ConsumerHost(c), ConsumerContext(c), c, TRUE)

\* ContextConsumer.hostConnected -> dispatchRequest
dispatchRequest(s, c) ==
    DispatchRequest(s, ConsumerHost(c), ConsumerContext(c), c, Subscribe(c))

\* hostDisconnected that also clears the provided flag
ConsumerHostDisconnected_ResetProvided(s, c) ==
    IF s.unsub[c] # NoHandle
    THEN [Disposer(s, s.unsub[c]) EXCEPT !.unsub[c] = NoHandle, !.prev[c] = "none",
                                          !.provided[c] = FALSE]
    ELSE [s EXCEPT !.provided[c] = FALSE]

\* hostDisconnected that forgets the handle without invoking it
ConsumerHostDisconnected_NoCall(s, c) ==
    IF s.unsub[c] # NoHandle
    THEN [s EXCEPT !.unsub[c] = NoHandle, !.prev[c] = "none"]
    ELSE s

\* ContextConsumer.hostDisconnected
ConsumerHostDisconnected(s, c) ==
    IF s.unsub[c] # NoHandle
    THEN [Disposer(s, s.unsub[c]) EXCEPT !.unsub[c] = NoHandle, !.prev[c] = "none"]
    ELSE s

ProviderConnect(p) == Commit(hostConnected(State, p), "hostConnected", p)

ProviderDisconnect(p) == Commit(hostDisconnected(State, p), "hostDisconnected", p)

\* provider.setValue(v) on a provider the caller constructed; defineProvider
\* keeps its provider to itself
ProviderSetValue(p, v, force) ==
    /\ ~Wired(p)
    /\ Commit(setValue(State, p, v, force), "setValue", p)

\* the setter that defineProvider puts on the property:
\* controller.setValue(value); valueMap.set(this, value)
PropertySetter(s, p, value) ==
    [setValue(s, p, value, FALSE) EXCEPT !.hprop[p] = value]

\* element[name] = v on a property wrapped by defineProvider
PropertyAssign(p, v) ==
    /\ Wired(p)
    /\ Commit(PropertySetter(State, p, v), "assign", p)

ConsumerConnect(c) ==
    Commit(dispatchRequest([State EXCEPT !.conn[c] = TRUE], c), "consumerConnected", c)

ConsumerDisconnect(c) ==
    Commit(ConsumerHostDisconnected([State EXCEPT !.conn[c] = FALSE], c),
           "consumerDisconnected", c)

Init ==
    /\ scn \in Scenarios
    /\ listeners = [e \in Elements |-> <<>>]
    /\ pending = <<>>
    /\ conn = [c \in Consumers |-> FALSE]
    /\ isConnected = FALSE
    /\ isReady = [p \in Providers |-> FALSE]
    /\ polled = [p \in Providers |-> "none"]
    /\ again = [p \in Providers |-> FALSE]
    /\ replayed = [c \in Consumers |-> 0]
    /\ announced = <<>>
    /\ handlers = <<>>
    /\ reparented = <<>>
    /\ hprop = [p \in Providers |-> valueMap(p)]
    /\ pvalue = [p \in Providers |-> InitialValue(p)]
    /\ subs = [p \in Providers |-> <<>>]
    /\ cvalue = [c \in Consumers |-> Undef]
    /\ provided = [c \in Consumers |-> FALSE]
    /\ unsub = [c \in Consumers |-> NoHandle]
    /\ cbArg = [c \in Consumers |-> Undef]
    /\ calls = [c \in Consumers |-> 0]
    /\ claimed = [c \in Consumers |-> <<>>]
    /\ prev = [c \in Consumers |-> "none"]
    /\ last = [op |-> "init", who |-> "none"]

Next ==
    \/ \E p \in Providers : ProviderConnect(p)
    \/ \E p \in Providers : ProviderDisconnect(p)
    \/ \E p \in Providers, v \in Values, force \in BOOLEAN : ProviderSetValue(p, v, force)
    \/ \E p \in Providers, v \in Values : PropertyAssign(p, v)
    \/ \E c \in Consumers : ConsumerConnect(c)
    \/ \E c \in Consumers : ConsumerDisconnect(c)

Spec == Init /\ [][Next]_vars

\* ------------------------------------- providers on plain HTML elements

\* the fixtures whose providers sit on elements without lifecycle hooks
PollScenarios == {Plain}

InitPoll == Init /\ scn \in PollScenarios

\* document.body.appendChild(container)
Attach ==
    /\ ~isConnected
    /\ Commit([State EXCEPT !.isConnected = TRUE], "attach", "none")

\* container.remove()
Detach ==
    /\ isConnected
    /\ Commit([State EXCEPT !.isConnected = FALSE], "detach", "none")

\* the ResizeObserver of p's host runs the connectionCallback
Poll(p) ==
    Commit(connectionCallback(
               [State EXCEPT !.again[p] = @ \/ (isConnected /\ ~isReady[p]
                                                  /\ Contains(listeners[ProviderHost(p)], p))],
               p),
           "poll", p)

NextPoll ==
    \/ \E p \in Providers : ProviderConnect(p)
    \/ \E p \in Providers : ProviderDisconnect(p)
    \/ \E p \in Providers, v \in Values, force \in BOOLEAN : ProviderSetValue(p, v, force)
    \/ \E c \in Consumers : ConsumerConnect(c)
    \/ \E c \in Consumers : ConsumerDisconnect(c)
    \/ Attach
    \/ Detach
    \/ \E p \in Providers : Poll(p)

SpecPoll == InitPoll /\ [][NextPoll]_vars

\* ------------------------------------------------------------ the claims

\* the elements on the path from e to the root, e first (composedPath)
RECURSIVE ComposedPath(_)
ComposedPath(e) ==
    IF Parent(e) = NoElement THEN <<e>> ELSE <<e>> \o ComposedPath(Parent(e))

\* a is a proper ancestor of e
Encloses(a, e) == a # e /\ Contains(ComposedPath(e), a)

\* p has its listeners attached
Listening(p) == Contains(listeners[ProviderHost(p)], p)

\* p is a provider of context ctx that encloses element e and has its listeners attached
ServesAt(p, e, ctx) ==
    /\ Listening(p)
    /\ ProviderContext(p) = ctx
    /\ Encloses(ProviderHost(p), e)

\* p is the nearest such provider: every other one is on an element above it
NearestAt(p, e, ctx) ==
    /\ ServesAt(p, e, ctx)
    /\ \A q \in Providers \ {p} :
          ServesAt(q, e, ctx) => Encloses(ProviderHost(q), ProviderHost(p))

\* the nearest enclosing provider of consumer c
Nearest(p, c) == NearestAt(p, ConsumerHost(c), ConsumerContext(c))

\* c is subscribed to p: it holds p's handle
SubscribedTo(c, p) == unsub[c] # NoHandle /\ unsub[c].p = p

\* C1: a request dispatched by a consumer is claimed by the nearest enclosing
\* provider of its context whose listeners are attached, and by no other; the
\* consumer's value after the dispatch is that provider's value.
C1_NearestProviderClaims ==
    \A c \in Consumers : \A p \in Providers :
        (last.op = "consumerConnected" /\ last.who = c /\ Nearest(p, c))
            => (claimed[c] = <<p>> /\ cvalue[c] = pvalue[p])

\* C1 witness: under two nested providers holding different values, the
\* consumer below both has just been given the inner provider's value
C1_Witness ==
    /\ scn.name = "late"
    /\ last = [op |-> "consumerConnected", who |-> "cS"]
    /\ Listening("P1") /\ Listening("P2")
    /\ pvalue["P1"] # pvalue["P2"]
    /\ claimed["cS"] = <<"P2">>
    /\ cvalue["cS"] = pvalue["P2"]

\* the step just taken is the operation op of controller who
Did(op, who) == last'.op = op /\ last'.who = who

\* the handle of the i-th registration of p
HandleOf(p, i) == [p |-> p, cb |-> subs[p][i].cb, gen |-> subs[p][i].gen]

\* C2: a subscribing consumer that connects under a provider becomes subscribed
\* to the nearest one, and every setValue(v) on the provider a subscribing
\* consumer is subscribed to delivers v: when it returns the consumer's value
\* is v, the user callback was last invoked with v, and the consumer is still
\* subscribed.
C2_SetValueDelivers ==
    [][\A p \in Providers : \A c \in Consumers : Subscribe(c) =>
        /\ (Did("consumerConnected", c) /\ Nearest(p, c))
              => (unsub'[c] # NoHandle /\ unsub'[c].p = p /\ Has(subs'[p], c))
        /\ (Did("setValue", p) /\ SubscribedTo(c, p))
              => /\ cvalue'[c] = pvalue'[p]
                 /\ cbArg'[c] = pvalue'[p]
                 /\ unsub'[c] = unsub[c]]_vars

\* C2 witness: a broadcast of P1 has just reached its subscriber cT
C2_Witness ==
    /\ scn.name = "late"
    /\ last = [op |-> "setValue", who |-> "P1"]
    /\ SubscribedTo("cT", "P1")
    /\ calls["cT"] = 1
    /\ cvalue["cT"] = pvalue["P1"] /\ cbArg["cT"] = pvalue["P1"]
    /\ cvalue["cS"] # pvalue["P1"]

\* C3: a one-shot consumer is delivered to once: its first request under a
\* provider stores the nearest provider's value and invokes the user callback
\* once, and no later setValue changes its value or invokes the callback.
C3_OneShotOnce ==
    [][\A c \in Consumers : ~Subscribe(c) =>
        /\ \A p \in Providers :
              (Did("consumerConnected", c) /\ ~provided[c] /\ Nearest(p, c))
                  => (cvalue'[c] = pvalue[p] /\ calls'[c] = 1 /\ cbArg'[c] = pvalue[p]
                      /\ provided'[c])
        /\ last'.op = "setValue"
              => (cvalue'[c] = cvalue[c] /\ calls'[c] = 0 /\ cbArg'[c] = cbArg[c])]_vars

\* C3 witness: P2 has just broadcast a new value to its subscriber cS while the
\* one-shot consumer cO on the same element keeps the value it was given
C3_Witness ==
    /\ scn.name = "shadow"
    /\ last = [op |-> "setValue", who |-> "P2"]
    /\ provided["cO"] /\ calls["cO"] = 0
    /\ SubscribedTo("cS", "P2") /\ calls["cS"] = 1
    /\ cvalue["cS"] = pvalue["P2"]
    /\ cvalue["cO"] # pvalue["P2"] /\ cvalue["cO"] # Undef

C5_SetValueFrame ==
    [][\A p \in Providers : \A c \in Consumers :
        (Did("setValue", p) /\ (prev[c] = p \/ ~SubscribedTo(c, p)))
            => /\ cvalue'[c] = cvalue[c]
               /\ calls'[c] = 0
               /\ unsub'[c] = unsub[c]]_vars

\* C5 witness: after cS was handed off from P1 to P2, a setValue on P1 has just
\* reached cT (still subscribed to P1) and not cS
C5_Witness ==
    /\ scn.name = "late"
    /\ last = [op |-> "setValue", who |-> "P1"]
    /\ prev["cS"] = "P1" /\ SubscribedTo("cS", "P2")
    /\ SubscribedTo("cT", "P1")
    /\ calls["cT"] = 1 /\ calls["cS"] = 0
    /\ cvalue["cT"] = pvalue["P1"] /\ cvalue["cS"] # pvalue["P1"]

\* C6: setValue on a provider leaves every consumer outside the subtree of the
\* provider's host unchanged, and gives the new value to the consumers of its
\* own subtree that are subscribed to it.
C6_NoCrossTalk ==
    [][\A p \in Providers : \A c \in Consumers :
        Did("setValue", p) =>
            /\ ~Encloses(ProviderHost(p), ConsumerHost(c))
                  => (cvalue'[c] = cvalue[c] /\ calls'[c] = 0 /\ cbArg'[c] = cbArg[c])
            /\ (Encloses(ProviderHost(p), ConsumerHost(c)) /\ SubscribedTo(c, p))
                  => cvalue'[c] = pvalue'[p]]_vars

\* C6 witness: of two sibling pairs, P1 has just updated its own consumer cS
\* and cT keeps the different value of its own provider P2
C6_Witness ==
    /\ scn.name = "siblings"
    /\ last = [op |-> "setValue", who |-> "P1"]
    /\ SubscribedTo("cS", "P1") /\ SubscribedTo("cT", "P2")
    /\ calls["cS"] = 1 /\ calls["cT"] = 0
    /\ cvalue["cS"] = pvalue["P1"]
    /\ cvalue["cT"] = pvalue["P2"] /\ pvalue["P2"] # pvalue["P1"]

\* C7: a provider never services a consumer on its own host: the consumer is
\* not in its registry, its requests are not claimed by it and it holds no
\* handle of it; its request is claimed by the nearest enclosing provider,
\* whose value it receives.
C7_NoSelfService ==
    \A p \in Providers : \A c \in Consumers :
        ConsumerHost(c) = ProviderHost(p) =>
            /\ ~Has(subs[p], c)
            /\ ~Contains(claimed[c], p)
            /\ ~SubscribedTo(c, p)
            /\ \A q \in Providers :
                  (last = [op |-> "consumerConnected", who |-> c] /\ Nearest(q, c))
                      => (claimed[c] = <<q>> /\ cvalue[c] = pvalue[q])

\* C7 witness: cB, on the host of P2, has just been given the value of P1
\* while P2 was listening with a different value
C7_Witness ==
    /\ scn.name = "self"
    /\ last = [op |-> "consumerConnected", who |-> "cB"]
    /\ Listening("P1") /\ Listening("P2")
    /\ pvalue["P1"] # pvalue["P2"]
    /\ claimed["cB"] = <<"P1">>
    /\ cvalue["cB"] = pvalue["P1"]

\* C8: a consumer in the shadow root of a listening provider's host is served
\* by that provider: its request is claimed by it, and a later setValue of the
\* provider reaches the consumer.
C8_ShadowConsumerServed ==
    \A p \in Providers : \A c \in Consumers :
        ( /\ ConsumerHost(c) \in scn.shadow
          /\ Parent(ConsumerHost(c)) = ProviderHost(p)
          /\ ProviderContext(p) = ConsumerContext(c)
          /\ Listening(p) )
        => /\ last = [op |-> "consumerConnected", who |-> c]
                => /\ claimed[c] = <<p>>
                   /\ cvalue[c] = pvalue[p]
                   /\ Subscribe(c) => (SubscribedTo(c, p) /\ Has(subs[p], c))
           /\ (last = [op |-> "setValue", who |-> p] /\ SubscribedTo(c, p))
                => cvalue[c] = pvalue[p]

\* C8 witness: cS, in the shadow root of P2's host, is subscribed to P2 and has
\* just received a broadcast of P2
C8_Witness ==
    /\ scn.name = "shadow"
    /\ last = [op |-> "setValue", who |-> "P2"]
    /\ Listening("P2")
    /\ SubscribedTo("cS", "P2") /\ Has(subs["P2"], "cS")
    /\ calls["cS"] = 1
    /\ cvalue["cS"] = pvalue["P2"] /\ pvalue["P2"] # pvalue["P1"]

\* c is in no provider's registry
Unregistered(c) == \A p \in Providers : ~Has(subs[p], c)

\* C9: hostDisconnected of a consumer that holds a handle clears the handle and
\* removes the consumer's entry from the registry; until the consumer connects
\* again it stays out of every registry, and no setValue changes its value or
\* invokes its user callback.
C9_DisconnectUnsubscribes ==
    [][\A c \in Consumers :
        /\ Did("consumerDisconnected", c)
              => (unsub'[c] = NoHandle /\ Unregistered(c)' /\ cvalue'[c] = cvalue[c])
        /\ (~conn[c] /\ ~Did("consumerConnected", c))
              => (unsub'[c] = NoHandle /\ Unregistered(c)')
        /\ (unsub[c] = NoHandle /\ last'.op \in {"setValue", "assign"})
              => (cvalue'[c] = cvalue[c] /\ calls'[c] = 0)]_vars

\* C9 witness: cS was delivered to and has disconnected; P1 has just broadcast
\* a value to cT that cS did not receive
C9_Witness ==
    /\ scn.name = "late"
    /\ last = [op |-> "setValue", who |-> "P1"]
    /\ ~Listening("P2") /\ Listening("P1")
    /\ provided["cS"] /\ unsub["cS"] = NoHandle /\ Unregistered("cS")
    /\ calls["cS"] = 0 /\ cvalue["cS"] # pvalue["P1"]
    /\ SubscribedTo("cT", "P1") /\ calls["cT"] = 1 /\ cvalue["cT"] = pvalue["P1"]

\* C10: every registry entry belongs to a consumer that holds the handle of
\* that entry (so none to a disconnected consumer) and no callback is
\* registered twice; connecting a subscribing consumer that has just
\* disconnected dispatches a request that the nearest provider claims: the
\* consumer is registered there, and is delivered that provider's value.
C10_ReattachNoLeak ==
    /\ \A p \in Providers : \A i \in 1..Len(subs[p]) :
          /\ unsub[subs[p][i].cb] = HandleOf(p, i)
          /\ \A j \in 1..Len(subs[p]) : subs[p][i].cb = subs[p][j].cb => i = j
    /\ \A c \in Consumers : \A p \in Providers :
          (last = [op |-> "consumerDisconnected", who |-> c] /\ Subscribe(c) /\ Nearest(p, c))
              => LET r == dispatchRequest(State, c)
                 IN /\ r.claimed[c] = <<p>>
                    /\ r.cvalue[c] = pvalue[p]
                    /\ r.calls[c] = 1
                    /\ r.unsub[c] # NoHandle /\ r.unsub[c].p = p
                    /\ \A q \in Providers :
                          Len(r.subs[q]) = Cardinality({d \in Consumers : r.unsub[d].p = q})

\* C10 witness: cS has just detached from P1 holding a stale value; the
\* registry of P1 holds cT only, and attaching cS again delivers P1's value
C10_Witness ==
    /\ scn.name = "late"
    /\ last = [op |-> "consumerDisconnected", who |-> "cS"]
    /\ Listening("P1") /\ ~Listening("P2")
    /\ provided["cS"] /\ cvalue["cS"] # pvalue["P1"]
    /\ Len(subs["P1"]) = 1 /\ Has(subs["P1"], "cT")
    /\ LET r == dispatchRequest(State, "cS")
       IN r.cvalue["cS"] = pvalue["P1"] /\ r.calls["cS"] = 1 /\ Len(r.subs["P1"]) = 2

\* ---------------------------------------------------------------------

\* c was never delivered to: no value, no handle, the user callback never ran
Unset(c) ==
    /\ cvalue[c] = Undef /\ cbArg[c] = Undef
    /\ unsub[c] = NoHandle /\ ~provided[c]

\* C11: a request dispatched while no provider of its context with attached
\* listeners encloses the consumer is claimed by nobody, and as long as no
\* provider claims a request of a consumer that was never delivered to, its
\* value stays undefined, its handle stays empty and its user callback is not
\* invoked, whatever else happens (setValue, connects and disconnects).
C11_UnclaimedStaysUnset ==
    [][\A c \in Consumers :
        /\ (Did("consumerConnected", c)
              /\ ~\E p \in Providers : ServesAt(p, ConsumerHost(c), ConsumerContext(c)))
              => claimed'[c] = <<>>
        /\ (Unset(c) /\ claimed'[c] = <<>>) => (Unset(c)' /\ calls'[c] = 0)]_vars

\* C11 witness: cS has connected while no provider was listening and stays
\* unset after a setValue on P1, which is not connected
C11_Witness ==
    /\ scn.name = "late"
    /\ last = [op |-> "setValue", who |-> "P1"]
    /\ conn["cS"] /\ Unset("cS")
    /\ ~Listening("P1") /\ ~Listening("P2")
    /\ pvalue["P1"] # scn.pinit["P1"]

\* the ContextRoot retains a request of consumer c
Retained(c) ==
    \E i \in 1..Len(pending) :
        /\ pending[i].context = ConsumerContext(c)
        /\ pending[i].host = ConsumerHost(c)
        /\ pending[i].cb = c

\* an announcement dispatched from the host of p bubbles up to the ContextRoot:
\* the root is on the path and no attached provider of the context stops it
ReachesRoot(p) ==
    /\ scn.root # NoElement
    /\ Contains(ComposedPath(ProviderHost(p)), scn.root)
    /\ \A q \in Providers :
          (Listening(q) /\ ProviderContext(q) = ProviderContext(p)
             /\ Encloses(ProviderHost(q), ProviderHost(p)))
          => Encloses(ProviderHost(q), scn.root)

\* C12: under a ContextRoot, when a provider connects and its announcement
\* reaches the root, every connected subscribing consumer whose unanswered
\* request the root retains and whose nearest provider it now is receives the
\* provider's value in that step (one callback), is subscribed to it and is no
\* longer retained; a later setValue of that provider is delivered to it.
C12_LateProviderReplay ==
    [][\A p \in Providers : \A c \in Consumers :
        /\ ( /\ Did("hostConnected", p) /\ ReachesRoot(p)
             /\ Retained(c) /\ conn[c] /\ Subscribe(c)
             /\ Nearest(p, c)' )
           => /\ cvalue'[c] = pvalue[p] /\ cbArg'[c] = pvalue[p]
              /\ calls'[c] = 1 /\ claimed'[c] = <<p>>
              /\ SubscribedTo(c, p)' /\ Has(subs'[p], c)
              /\ ~Retained(c)'
        /\ ( /\ Did("setValue", p) /\ scn.root # NoElement
             /\ Subscribe(c) /\ SubscribedTo(c, p) )
           => (cvalue'[c] = pvalue'[p] /\ cbArg'[c] = pvalue'[p])]_vars

\* C12 witness: P1 has connected after cS asked in vain, and the replay of the
\* retained request has just delivered P1's value to cS
C12_Witness ==
    /\ scn.name = "rootonce"
    /\ last = [op |-> "hostConnected", who |-> "P1"]
    /\ SubscribedTo("cS", "P1") /\ calls["cS"] = 1 /\ claimed["cS"] = <<"P1">>
    /\ cvalue["cS"] = pvalue["P1"]
    /\ pending = <<>>

RetainedOf(c) == {i \in 1..Len(pending) : pending[i].cb = c}

\* the registrations of consumer c over all providers
RegisteredOf(c) ==
    {<<p, i>> \in Providers \X (1..3) : i <= Len(subs[p]) /\ subs[p][i].cb = c}

\* C14: the ContextRoot retains at most one request per consumer however often
\* the consumer asks: a request of a consumer that is already retained leaves
\* the list as long as it was; and when a late provider's announcement
\* replays a retained request, the consumer's user callback runs exactly
\* once in that step and the consumer ends with one registration.
C14_MovedProvidedOnce ==
    [][\A c \in Consumers :
        /\ Cardinality(RetainedOf(c)') <= 1
        /\ (Did("consumerConnected", c) /\ Retained(c)) => Len(pending') = Len(pending)
        /\ (Did("consumerConnected", c) /\ Retained(c) /\ Retained(c)')
              => (calls'[c] = 0 /\ Cardinality(RegisteredOf(c)') = Cardinality(RegisteredOf(c)))
        /\ (last'.op = "hostConnected" /\ replayed'[c] > 0 /\ claimed'[c] # <<>>)
              => (calls'[c] = 1 /\ Cardinality(RegisteredOf(c)') = 1)]_vars

\* C14 witness: cS asked twice in vain before P1 connected; the replay has
\* just delivered P1's value to it with one call of its callback
C14_Witness ==
    /\ scn.name = "rootpair"
    /\ last = [op |-> "hostConnected", who |-> "P1"]
    /\ replayed["cS"] = 2
    /\ calls["cS"] = 1 /\ cvalue["cS"] = pvalue["P1"]
    /\ Cardinality(RegisteredOf("cS")) = 1 /\ ~Retained("cS")

\* c and d are two subscribing consumers of one context on one host element
SameHostPair(c, d) ==
    /\ c # d /\ Subscribe(c) /\ Subscribe(d)
    /\ ConsumerHost(c) = ConsumerHost(d)
    /\ ConsumerContext(c) = ConsumerContext(d)

\* C15: two subscribing consumers of one context on one host element are
\* registered independently. Each that connects under the provider gets the
\* provider's value and a registration while the other's handle is left alone;
\* when both are subscribed to a provider their handles differ, the registry
\* holds both, and after every step (every setValue included) both hold the
\* provider's value; a disconnect of one leaves the other subscribed; the
\* ContextRoot retains the unanswered request of each beside the other's;
\* and when a late provider's announcement reaches the root that retains the
\* requests of both, both are delivered to, once each.
C15_SameHostIndependent ==
    [][\A c, d \in Consumers : \A p \in Providers : SameHostPair(c, d) =>
        /\ (Did("consumerConnected", c) /\ Nearest(p, c))
              => /\ SubscribedTo(c, p)' /\ cvalue'[c] = pvalue[p] /\ calls'[c] = 1
                 /\ unsub'[d] = unsub[d] /\ calls'[d] = 0
        /\ ( /\ Did("consumerConnected", c) /\ claimed'[c] = <<>>
             /\ Contains(ComposedPath(ConsumerHost(c)), scn.root) )
              => (Retained(c)' /\ (Retained(d) => Retained(d)'))
        /\ (SubscribedTo(c, p) /\ SubscribedTo(d, p))'
              => /\ unsub'[c] # unsub'[d]
                 /\ Has(subs'[p], c) /\ Has(subs'[p], d)
                 /\ cvalue'[c] = pvalue'[p] /\ cvalue'[d] = pvalue'[p]
        /\ (Did("setValue", p) /\ SubscribedTo(c, p) /\ SubscribedTo(d, p)
              /\ pvalue'[p] # pvalue[p])
              => (calls'[c] = 1 /\ calls'[d] = 1)
        /\ (Did("consumerDisconnected", c) /\ SubscribedTo(d, p))
              => (unsub'[d] = unsub[d] /\ Has(subs'[p], d))
        /\ ( /\ Did("hostConnected", p) /\ ReachesRoot(p) /\ Nearest(p, c)'
             /\ Retained(c) /\ conn[c] /\ Retained(d) /\ conn[d] )
              => /\ SubscribedTo(c, p)' /\ SubscribedTo(d, p)'
                 /\ calls'[c] = 1 /\ calls'[d] = 1
                 /\ cvalue'[c] = pvalue[p] /\ cvalue'[d] = pvalue[p]]_vars

\* C15 witness: cS and cT, both on element 3, asked before P1 connected; the
\* replay of the two retained requests has just delivered to both
C15_Witness ==
    /\ scn.name = "rootpair"
    /\ last = [op |-> "hostConnected", who |-> "P1"]
    /\ replayed["cS"] > 0 /\ replayed["cT"] > 0
    /\ SubscribedTo("cS", "P1") /\ SubscribedTo("cT", "P1")
    /\ unsub["cS"] # unsub["cT"]
    /\ calls["cS"] = 1 /\ calls["cT"] = 1
    /\ cvalue["cS"] = pvalue["P1"] /\ cvalue["cT"] = pvalue["P1"]

\* the providers that claimed the request of c in the last step
Claimers(c) == {claimed[c][i] : i \in 1..Len(claimed[c])}

\* p is attached to the first element above c that carries an attached
\* provider of c's context
OnFirstHost(p, c) ==
    /\ ServesAt(p, ConsumerHost(c), ConsumerContext(c))
    /\ \A m \in Providers :
          ServesAt(m, ConsumerHost(c), ConsumerContext(c))
            => ~Encloses(ProviderHost(p), ProviderHost(m))

\* C16 as stated: the one request event a connecting consumer dispatches is
\* claimed by at most one provider
C16_AsStated ==
    \A c \in Consumers :
        (last.op = "consumerConnected" /\ last.who = c) => Len(claimed[c]) <= 1

\* C16: the one request event a connecting consumer dispatches is claimed
\* on at most one host element, by each provider of the context attached to
\* that element once, in the order they were attached: no provider on another
\* element gains a registration of the callback, the user callback runs at
\* most once per claiming provider (exactly once for a subscribing consumer),
\* and a subscribing consumer ends subscribed to the last of them with no
\* registration left at the others.
C16_ClaimedOnOneHost ==
    [][\A c \in Consumers : Did("consumerConnected", c) =>
        /\ \A p, q \in Claimers(c)' : ProviderHost(p) = ProviderHost(q)
        /\ Cardinality(Claimers(c)') = Len(claimed'[c])
        /\ \A p \in Providers :
              /\ p \in Claimers(c)' <=> OnFirstHost(p, c)
              /\ p \notin Claimers(c)' => (Has(subs'[p], c) => Has(subs[p], c))
        /\ calls'[c] <= Len(claimed'[c])
        /\ Subscribe(c) => calls'[c] = Len(claimed'[c])
        /\ (Subscribe(c) /\ claimed'[c] # <<>>)
              => \A p \in Providers :
                    IF p = claimed'[c][Len(claimed'[c])]
                    THEN SubscribedTo(c, p)' /\ Has(subs'[p], c)
                    ELSE ~Has(subs'[p], c)]_vars

\* C16 witness: P2 and P3, both on element 2 and both of cS's context, have
\* each claimed the request of cS; cS holds the handle of P3
C16_Witness ==
    /\ scn.name = "twin"
    /\ last = [op |-> "consumerConnected", who |-> "cS"]
    /\ claimed["cS"] = <<"P2", "P3">>
    /\ calls["cS"] = 2
    /\ SubscribedTo("cS", "P3") /\ ~Has(subs["P2"], "cS")

\* C17: a provider whose context is not the one of the request ignores it: it
\* does not claim it and its registry stays as it was, whether it is on an
\* element between the consumer and the provider of the consumer's context or
\* on the same element as that provider; the request is claimed by the nearest
\* attached provider of the consumer's context, whose value the consumer
\* gets; and a setValue on a provider of another context reaches no consumer
\* of this one.
C17_OtherContextIgnored ==
    [][\A c \in Consumers : \A p \in Providers :
        /\ (Did("consumerConnected", c) /\ ProviderContext(p) # ConsumerContext(c))
              => /\ p \notin Claimers(c)'
                 /\ subs'[p] = subs[p]
                 /\ ~SubscribedTo(c, p)'
        /\ (Did("consumerConnected", c) /\ Nearest(p, c))
              => /\ claimed'[c] = <<p>> /\ cvalue'[c] = pvalue[p]
                 /\ ProviderContext(p) = ConsumerContext(c)
        /\ (Did("setValue", p) /\ ProviderContext(p) # ConsumerContext(c))
              => (cvalue'[c] = cvalue[c] /\ calls'[c] = 0)]_vars

\* C17 witness: the request of cS (ctxA) has passed the attached provider P2
\* of ctxB on element 2 and was claimed by P1 on element 1
C17_Witness ==
    /\ scn.name = "mixed"
    /\ last = [op |-> "consumerConnected", who |-> "cS"]
    /\ Listening("P1") /\ Listening("P2")
    /\ pvalue["P1"] # pvalue["P2"]
    /\ claimed["cS"] = <<"P1">> /\ cvalue["cS"] = pvalue["P1"]
    /\ subs["P2"] = <<>> /\ Has(subs["P1"], "cS")

\* C18: a consumer that connects under its nearest provider after values were
\* set on it has the provider's current value when its dispatch returns,
\* which for a property wired by defineProvider is the value assigned last;
\* if it was never delivered to before, this first delivery calls the user
\* callback once, with that value.
C18_LateConsumerGetsCurrent ==
    [][\A c \in Consumers : \A p \in Providers :
        (Did("consumerConnected", c) /\ Nearest(p, c))
           => /\ cvalue'[c] = pvalue[p] /\ pvalue'[p] = pvalue[p]
              /\ Unset(c) => (cbArg'[c] = pvalue[p] /\ calls'[c] = 1)
              /\ (Wired(p) /\ pvalue[p] # InitialValue(p)) => cvalue'[c] = hprop[p]]_vars

\* C18 witness: cS connected after another value had been assigned to the
\* provided property, and holds that value
C18_Witness ==
    /\ scn.name = "wiredinitial"
    /\ last = [op |-> "consumerConnected", who |-> "cS"]
    /\ hprop["P1"] # scn.pinit["P1"]
    /\ cvalue["cS"] = hprop["P1"] /\ cbArg["cS"] = hprop["P1"]
    /\ calls["cS"] = 1 /\ SubscribedTo("cS", "P1")

\* C19 as stated: the provider of a property wrapped by defineProvider holds
\* the property's value of definition time until the property is assigned; an
\* assignment makes the assigned value the provider's value and the value of
\* every consumer subscribed to it; and every call of the callback that
\* defineConsumer installs leaves the delivered value in the host property.
C19_AsStated ==
    [][\A p \in Providers : Wired(p) =>
        /\ last.op = "init" => pvalue[p] = scn.pinit[p]
        /\ ~Did("assign", p) => pvalue'[p] = pvalue[p]
        /\ Did("assign", p)
              => /\ pvalue'[p] = hprop'[p]
                 /\ \A c \in Consumers :
                       (Subscribe(c) /\ SubscribedTo(c, p)) => cvalue'[c] = hprop'[p]
        /\ \A c \in Consumers : calls'[c] > 0 => cbArg'[c] = cvalue'[c]]_vars

\* the handles a provider can pass to the delivery handler of c
HandlesOf(c) == {[p |-> p, cb |-> c, gen |-> g] : p \in Providers, g \in 0..1}

\* C20: in every reachable state in which c holds a handle, the cleanup stage
\* of the delivery handler, run with a handle that differs from the held one,
\* leaves c marked not provided and the held handle's registration removed
\* while the held handle and the value are still the old ones (the new ones
\* are stored afterwards) and the registry of the new provider is untouched;
\* run with the held handle itself it changes nothing. Over a whole step: a
\* consumer that ends with a handle of another provider is out of the old
\* provider's registry, in the new one's and marked provided; a setValue of
\* the provider it is subscribed to leaves its handle, its registration and
\* its provided mark as they were.
C20_CleanupBeforeStore ==
    [][\A c \in Consumers :
        /\ unsub[c] # NoHandle
              => \A h \in HandlesOf(c) :
                    LET s1 == CleanupOldProvider(State, c, h)
                    IN IF h # unsub[c]
                       THEN /\ ~s1.provided[c]
                            /\ ~Has(s1.subs[unsub[c].p], c)
                            /\ s1.unsub[c] = unsub[c] /\ s1.cvalue[c] = cvalue[c]
                            /\ h.p # unsub[c].p => s1.subs[h.p] = subs[h.p]
                       ELSE /\ s1.provided[c] = provided[c]
                            /\ s1.subs = subs /\ s1.unsub = unsub
        /\ ( /\ unsub[c] # NoHandle /\ unsub'[c] # NoHandle
             /\ unsub'[c].p # unsub[c].p )
              => /\ ~Has(subs'[unsub[c].p], c)
                 /\ Has(subs'[unsub'[c].p], c)
                 /\ provided'[c] /\ prev'[c] # "none"
        /\ \A p \in Providers :
              (Did("setValue", p) /\ SubscribedTo(c, p))
                 => /\ unsub'[c] = unsub[c] /\ provided'[c] = provided[c]
                    /\ Has(subs'[p], c) /\ prev'[c] = prev[c]]_vars

\* C20 witness: the announcement of P3 has moved cS from P2 to P3: the entry
\* at P2 is gone, cS holds P3's handle and value and is marked provided
C20_Witness ==
    /\ scn.name = "deep"
    /\ last = [op |-> "hostConnected", who |-> "P3"]
    /\ prev["cS"] = "P2" /\ SubscribedTo("cS", "P3")
    /\ ~Has(subs["P2"], "cS") /\ Has(subs["P3"], "cS")
    /\ provided["cS"] /\ calls["cS"] = 1
    /\ pvalue["P2"] # pvalue["P3"] /\ cvalue["cS"] = pvalue["P3"]

\* ------------------------------------------ providers that always subscribe

\* _callback provides for "some providers [that] will pass an unsubscribe
\* function": a provider of the protocol that registers every callback and
\* passes its disposer, whatever the request's subscribe flag. The fixtures
\* with a one-shot consumer:
EagerScenarios == {Shadow, WiredInitial}

InitEager == Init /\ scn \in EagerScenarios

\* the nearest provider answers the request of the one-shot consumer c as if
\* it had asked for a subscription: callback(value, disposer)
EagerAnswer(p, c) ==
    /\ ~Subscribe(c)
    /\ Nearest(p, c)
    /\ Commit(addCallback([State EXCEPT !.claimed[c] = <<p>>, !.conn[c] = TRUE],
                          p, c, ConsumerHost(c), TRUE),
              "eagerAnswer", c)

NextEager ==
    \/ Next
    \/ \E p \in Providers, c \in Consumers : EagerAnswer(p, c)

SpecEager == InitEager /\ [][NextEager]_vars

\* C21 as stated: a delivery that carries a handle to a consumer that did not
\* ask for a subscription ends with the handle invoked, so that the
\* registration it stands for is gone, on the first such delivery as on
\* every later one.
C21_AsStated ==
    [][\A c \in Consumers : \A p \in Providers :
        (~Subscribe(c) /\ Did("eagerAnswer", c) /\ claimed'[c] = <<p>>)
           => ~Has(subs'[p], c)]_vars

\* C22: a consumer that did not ask for a subscription is in no provider's
\* registry and holds no handle, in every state; its deliveries leave it
\* marked provided with the delivered value.
C22_OneShotNeverRegistered ==
    \A c \in Consumers : ~Subscribe(c) =>
        /\ \A p \in Providers : ~Has(subs[p], c)
        /\ unsub[c] = NoHandle
        /\ calls[c] > 0 => (provided[c] /\ cvalue[c] = cbArg[c])

\* C22 witness: the one-shot cO has just been delivered P1's value; the
\* registry of P1 holds the subscribing cS only
C22_Witness ==
    /\ scn.name = "wiredinitial"
    /\ last = [op |-> "consumerConnected", who |-> "cO"]
    /\ calls["cO"] = 1 /\ provided["cO"] /\ cvalue["cO"] = pvalue["P1"]
    /\ claimed["cO"] = <<"P1">>
    /\ Len(subs["P1"]) = 1 /\ Has(subs["P1"], "cS") /\ ~Has(subs["P1"], "cO")
    /\ unsub["cO"] = NoHandle

\* the provider whose delivery to c came last in the step
LastClaimer(c) == claimed[c][Len(claimed[c])]

\* C23: every delivery leaves the delivered value in the consumer's value:
\* after a request of c that was claimed, c's value is the value of the
\* provider that delivered last, also when c is a one-shot consumer that was
\* provided before, in which case the user callback is not invoked and its
\* last argument stays what it was; and a setValue or assignment that
\* changes the provider's value leaves the new value with every consumer in
\* the provider's registry.
C23_ValueAlwaysStored ==
    [][\A c \in Consumers : \A p \in Providers :
        /\ (Did("consumerConnected", c) /\ claimed'[c] # <<>> /\ p = LastClaimer(c)')
              => /\ cvalue'[c] = pvalue[p]
                 /\ (~Subscribe(c) /\ provided[c])
                       => (calls'[c] = 0 /\ cbArg'[c] = cbArg[c] /\ provided'[c])
        /\ (last'.op \in {"setValue", "assign"} /\ last'.who = p
              /\ Has(subs[p], c) /\ pvalue'[p] # pvalue[p])
              => cvalue'[c] = pvalue'[p]]_vars

\* C23 witness: the one-shot cO, provided before, has asked again after the
\* property changed: its value is the new one, the user callback was not
\* invoked and still has the old argument
C23_Witness ==
    /\ scn.name = "wiredinitial"
    /\ last = [op |-> "consumerConnected", who |-> "cO"]
    /\ claimed["cO"] = <<"P1">> /\ calls["cO"] = 0
    /\ cvalue["cO"] = pvalue["P1"]
    /\ cbArg["cO"] # Undef /\ cbArg["cO"] # cvalue["cO"]

\* C24: a delivery invokes the user callback exactly when the consumer
\* subscribes or is not marked provided once the cleanup of a hand-off is
\* done. For a request or an answer that is claimed once: a subscribing
\* consumer's callback is invoked; a one-shot consumer's callback is invoked
\* iff it was not provided before or the delivery is a hand-off (it held a
\* handle and the delivered one differs); and in no step is the callback of a
\* provided one-shot consumer invoked while the handle it holds stays the same.
C24_UserCallbackGuard ==
    [][\A c \in Consumers :
        /\ ((Did("consumerConnected", c) \/ Did("eagerAnswer", c)) /\ Len(claimed'[c]) = 1)
              => /\ calls'[c] \in {0, 1}
                 /\ calls'[c] = 1 <=> \/ Subscribe(c)
                                      \/ ~provided[c]
                                      \/ (unsub[c] # NoHandle /\ unsub'[c] # unsub[c])
                 /\ provided'[c]
        /\ (~Subscribe(c) /\ provided[c] /\ unsub'[c] = unsub[c])
              => (calls'[c] = 0 /\ cbArg'[c] = cbArg[c] /\ provided'[c])]_vars

\* C24 witness: the one-shot cO, provided before and holding P1's handle, was
\* answered again by P1 with the same handle after the value changed: the
\* value is stored, the user callback was not invoked
C24_Witness ==
    /\ scn.name = "wiredinitial"
    /\ last = [op |-> "eagerAnswer", who |-> "cO"]
    /\ claimed["cO"] = <<"P1">> /\ calls["cO"] = 0 /\ provided["cO"]
    /\ cvalue["cO"] = pvalue["P1"] /\ cbArg["cO"] # cvalue["cO"] /\ cbArg["cO"] # Undef

\* C25: the callback of a consumer is the same in every request it
\* dispatches: a request of a connected consumer that is subscribed to its
\* nearest provider (hostConnected called again without a disconnect) is
\* claimed by that provider, which finds the callback registered: every
\* registry and the handle the consumer holds stay as they were, the consumer
\* has one registration, and the provider's value is delivered once more.
C25_StableCallbackIdentity ==
    [][\A c \in Consumers : \A p \in Providers :
        (Did("consumerConnected", c) /\ conn[c] /\ SubscribedTo(c, p) /\ Nearest(p, c))
           => /\ claimed'[c] = <<p>>
              /\ subs' = subs /\ unsub'[c] = unsub[c]
              /\ Cardinality(RegisteredOf(c)') = 1
              /\ calls'[c] = 1 /\ cvalue'[c] = pvalue[p]]_vars

\* C25 witness: cS has connected and is subscribed to P2; connecting it once
\* more without a disconnect leaves the registries and its handle unchanged
C25_Witness ==
    /\ scn.name = "late"
    /\ last = [op |-> "consumerConnected", who |-> "cS"]
    /\ Listening("P1") /\ Listening("P2") /\ SubscribedTo("cS", "P2")
    /\ LET r == dispatchRequest(State, "cS")
       IN /\ r.subs = subs /\ r.unsub = unsub
          /\ Len(r.subs["P2"]) = 1 /\ r.calls["cS"] = 1

\* the registration of c at p, or <<>> when there is none
EntryOf(p, c) == SelectSeq(subs[p], LAMBDA e : e.cb = c)

\* C26: when a provider p2 connects and the provider p1 that handles its
\* announcement re-dispatches the request of a consumer c that is subscribed
\* to p1 and still has p1 as its nearest provider, the request comes back to
\* p1: p1 alone claims it, c's registration at p1 and the handle c holds are
\* the ones from before, no hand-off is recorded, and c is delivered p1's
\* value once.
C26_IdempotentReRegistration ==
    [][\A c \in Consumers : \A p1, p2 \in Providers :
        ( /\ Did("hostConnected", p2) /\ p1 # p2
          /\ NearestAt(p1, ProviderHost(p2), ProviderContext(p2))
          /\ SubscribedTo(c, p1) /\ Has(subs[p1], c)
          /\ Nearest(p1, c)' )
        => /\ claimed'[c] = <<p1>>
           /\ EntryOf(p1, c)' = EntryOf(p1, c) /\ Len(EntryOf(p1, c)') = 1
           /\ unsub'[c] = unsub[c] /\ prev'[c] = prev[c]
           /\ calls'[c] = 1 /\ cvalue'[c] = pvalue[p1] /\ provided'[c]]_vars

\* C26 witness: P2 has connected below P1; P1 re-dispatched the requests of
\* cS and cT: cS went to P2, the request of cT came back to P1 and cT kept
\* its registration
C26_Witness ==
    /\ scn.name = "late"
    /\ last = [op |-> "hostConnected", who |-> "P2"]
    /\ claimed["cT"] = <<"P1">> /\ calls["cT"] = 1
    /\ SubscribedTo("cT", "P1") /\ Has(subs["P1"], "cT") /\ prev["cT"] = "none"
    /\ claimed["cS"] = <<"P2">> /\ SubscribedTo("cS", "P2")

\* C27: the handle a consumer holds is the handle of its registration, the
\* one it was passed on its first delivery and is passed again on every
\* broadcast; handles of different providers differ. So a setValue or a
\* property assignment leaves every registry, every held handle and every
\* hand-off record as they were, and invokes the callback of each
\* subscribed consumer at most once.
C27_HandleStableOverBroadcast ==
    [][/\ \A p \in Providers : \A i \in 1..Len(subs'[p]) :
             unsub'[subs'[p][i].cb] = HandleOf(p, i)'
       /\ \A c, d \in Consumers : \A p, q \in Providers :
             (SubscribedTo(c, p) /\ SubscribedTo(d, q) /\ p # q) => unsub[c] # unsub[d]
       /\ last'.op \in {"setValue", "assign"}
             => /\ subs' = subs /\ unsub' = unsub /\ prev' = prev
                /\ \A c \in Consumers : \A p \in Providers :
                      /\ calls'[c] <= 1
                      /\ (SubscribedTo(c, p) /\ last'.who = p /\ pvalue'[p] # pvalue[p])
                            => (calls'[c] = 1 /\ cbArg'[c] = pvalue'[p])]_vars

\* C27 witness: P1 has just broadcast a new value to its two subscribers,
\* which hold the two different handles of their registrations at P1
C27_Witness ==
    /\ scn.name = "late"
    /\ last = [op |-> "setValue", who |-> "P1"]
    /\ Len(subs["P1"]) = 2
    /\ unsub["cS"] = HandleOf("P1", IndexOf(subs["P1"], "cS"))
    /\ unsub["cT"] = HandleOf("P1", IndexOf(subs["P1"], "cT"))
    /\ calls["cS"] = 1 /\ calls["cT"] = 1
    /\ cbArg["cS"] = pvalue["P1"] /\ cbArg["cT"] = pvalue["P1"]
    /\ pvalue["P1"] # scn.pinit["P1"]

\* the providers that handled an announcement in the last step
Handlers == {handlers[i] : i \in 1..Len(handlers)}

\* the consumers whose request onProviderRequest re-dispatched in the last step
Reparented == {reparented[i].cb : i \in 1..Len(reparented)}

\* C28: a call of hostConnected of provider p dispatches exactly one
\* announcement, from p's host and with p's context, and no other call
\* dispatches any; p's listeners are attached when the call returns and were
\* attached when the announcement went out: p itself receives the
\* announcement and ignores it (it is not among the handlers and re-dispatches
\* nothing), and every request that an outer provider re-dispatches for the
\* announcement from a consumer whose nearest provider p now is, is claimed
\* by p.
C28_OneAnnouncement ==
    [][/\ \A p \in Providers : Did("hostConnected", p) =>
             /\ announced' = <<[context |-> ProviderContext(p), origin |-> ProviderHost(p)]>>
             /\ Listening(p)'
             /\ p \notin Handlers'
             /\ \A i \in 1..Len(reparented') : reparented'[i].by # p
             /\ \A c \in Reparented' : Nearest(p, c)' => claimed'[c] = <<p>>
       /\ last'.op # "hostConnected" => (announced' = <<>> /\ handlers' = <<>>)]_vars

\* C28 witness: P2 has connected below P1: one announcement from element 2,
\* handled by P1 alone, and the re-dispatched request of cS claimed by P2
C28_Witness ==
    /\ scn.name = "late"
    /\ last = [op |-> "hostConnected", who |-> "P2"]
    /\ announced = <<[context |-> "ctxA", origin |-> 2]>>
    /\ handlers = <<"P1">>
    /\ "cS" \in Reparented /\ claimed["cS"] = <<"P2">> /\ SubscribedTo("cS", "P2")

\* q is attached to the first element above the host of p that carries an
\* attached provider of p's context
FirstAbove(q, p) ==
    /\ ServesAt(q, ProviderHost(p), ProviderContext(p))
    /\ \A m \in Providers :
          ServesAt(m, ProviderHost(p), ProviderContext(p))
            => ~Encloses(ProviderHost(q), ProviderHost(m))

\* the re-dispatches in the last step that q made with subscribe = true for
\* callback cb from element host
RedispatchesOf(q, cb, host) ==
    {j \in 1..Len(reparented) :
        reparented[j] = [by |-> q, cb |-> cb, host |-> host, subscribe |-> TRUE]}

\* C29: when a provider p connects, its announcement is handled by the
\* attached providers of its context on the first element above its host
\* that carries one, each once, and by no provider farther up; a handler
\* re-dispatches exactly one request with subscribe = true for each of the
\* subscriptions it had, from that subscription's consumer host, and nothing
\* else is re-dispatched, except that of two handlers on one host the later
\* one also re-dispatches for a subscription it took over from the earlier
\* one's re-dispatch; and when a provider handled the announcement the
\* Context Root above replays nothing and its retained requests stay as
\* they were.
C29_HandlerRedispatchesAndStops ==
    [][\A p \in Providers : Did("hostConnected", p) =>
          /\ Handlers' = {q \in Providers : FirstAbove(q, p)}
          /\ Len(handlers') = Cardinality(Handlers')
          /\ \A q \in Providers : \A c \in Consumers : \A h \in Elements :
                (q \in Handlers' /\ EntryOf(q, c) # <<>> /\ EntryOf(q, c)[1].host = h)
                   => Cardinality(RedispatchesOf(q, c, h)') = 1
          /\ \A j \in 1..Len(reparented') :
                /\ reparented'[j].by \in Handlers'
                /\ reparented'[j].subscribe
                /\ \/ \E i \in 1..Len(subs[reparented'[j].by]) :
                         /\ subs[reparented'[j].by][i].cb = reparented'[j].cb
                         /\ subs[reparented'[j].by][i].host = reparented'[j].host
                   \/ /\ \E k \in 1..Len(claimed'[reparented'[j].cb]) :
                            claimed'[reparented'[j].cb][k] = reparented'[j].by
                      /\ reparented'[j].host = ConsumerHost(reparented'[j].cb)
                      /\ Cardinality(Handlers') > 1
          /\ Handlers' # {} =>
                /\ pending' = pending
                /\ \A c \in Consumers : replayed'[c] = 0]_vars

\* a provider connected between an attached provider with a subscription and
\* its consumer, under a Context Root that retains another consumer's request:
\* the outer provider handled the announcement and re-dispatched the
\* subscription's request, the root replayed nothing
C29_Witness ==
    /\ scn.name = "rootnested"
    /\ last = [op |-> "hostConnected", who |-> "P2"]
    /\ handlers = <<"P1">>
    /\ reparented = <<[by |-> "P1", cb |-> "cS", host |-> 4, subscribe |-> TRUE]>>
    /\ claimed["cS"] = <<"P2">>
    /\ Retained("cT") /\ conn["cT"] /\ replayed["cT"] = 0

\* provider q returns from onProviderRequest at its first test for an
\* announcement of context ctx dispatched from element origin
Ignores(q, ctx, origin) == ctx # ProviderContext(q) \/ origin = ProviderHost(q)

\* the registrations in the sequence entries
EntriesIn(entries) == {entries[i] : i \in 1..Len(entries)}

\* C30: a provider that is handed an announcement of another context, or one
\* announced from its own host, changes nothing and does not stop it; and in
\* the step of a connecting provider every provider that ignores its
\* announcement handles nothing and re-dispatches nothing, its registry
\* changes only by requests that an ancestor provider re-dispatched or the
\* Context Root replayed in that step (not at all when there was none), and
\* the announcement still reaches the attached providers of the context on the
\* first element above that carries one.
C30_IgnoredAnnouncementPassesOn ==
    [][/\ \A q \in Providers : \A p \in Providers :
             Ignores(q, ProviderContext(p), ProviderHost(p)) =>
                /\ onProviderRequest(State, q,
                       [context |-> ProviderContext(p), origin |-> ProviderHost(p)],
                       ProviderHost(q)).s = State
                /\ ~onProviderRequest(State, q,
                       [context |-> ProviderContext(p), origin |-> ProviderHost(p)],
                       ProviderHost(q)).stopped
       /\ \A p \in Providers : Did("hostConnected", p) =>
             /\ \A r \in Providers : FirstAbove(r, p) => r \in Handlers'
             /\ \A q \in Providers :
                   Ignores(q, ProviderContext(p), ProviderHost(p)) =>
                      /\ q \notin Handlers'
                      /\ \A j \in 1..Len(reparented') : reparented'[j].by # q
                      /\ \A e \in EntriesIn(subs'[q]) \ EntriesIn(subs[q]) :
                            e.cb \in Reparented' \/ replayed'[e.cb] # 0
                      /\ (Reparented' = {} /\ \A c \in Consumers : replayed'[c] = 0)
                            => subs'[q] = subs[q]]_vars

\* a provider connected below an attached provider of another context that
\* has an attached provider of its own context above it: the announcement
\* passed both ignoring providers and the outer one handled it
C30_Witness ==
    /\ scn.name = "between"
    /\ last = [op |-> "hostConnected", who |-> "P3"]
    /\ Listening("P2") /\ subs["P2"] = <<>>
    /\ handlers = <<"P1">>
    /\ "cS" \in Reparented /\ claimed["cS"] = <<"P3">>
    /\ subs["P3"] # <<>> /\ subs["P1"] = <<>>

\* the re-dispatches in the last step that q made for callback c
PassesOver(q, c) ==
    {j \in 1..Len(reparented) : reparented[j].by = q /\ reparented[j].cb = c}

\* C31: the handling of one announcement always completes (from every state
\* hostConnected of any provider returns, with no iterator left running and
\* at most one re-dispatch per provider and callback made) and in it no
\* provider re-dispatches the request of one callback more than once, also
\* when the re-dispatch removes the callback from the registry being iterated
\* and adds it again at the end because two providers on one host claim it in
\* turn.
C31_OncePerCallback ==
    [][/\ \A p \in Providers :
             /\ hostConnected(State, p).iterP = "none"
             /\ Len(hostConnected(State, p).reparented)
                   <= Cardinality(Providers) * Cardinality(Consumers)
       /\ \A p \in Providers : Did("hostConnected", p) =>
             \A q \in Providers : \A c \in Consumers :
                Cardinality(PassesOver(q, c)') <= 1]_vars

\* a provider connected below two attached providers on one host, one of
\* which held the consumer's subscription: both handled the announcement, the
\* one re-dispatch was claimed by both in turn, the consumer was called back
\* twice and is registered again with the provider that re-dispatched
C31_Witness ==
    /\ scn.name = "twinabove"
    /\ last = [op |-> "hostConnected", who |-> "P3"]
    /\ Handlers = {"P1", "P2"}
    /\ Len(reparented) = 1 /\ reparented[1].cb = "cS"
    /\ Len(claimed["cS"]) = 2 /\ calls["cS"] = 2
    /\ EntryOf(reparented[1].by, "cS") # <<>>
    /\ SubscribedTo("cS", reparented[1].by)

\* C32: when the connectionCallback of provider p runs with the host
\* connected and p not ready, it marks p ready and calls hostConnected (the
\* listeners are attached and p is announced once), and the call it made
\* before was not hostConnected; with the host not connected and p ready, it
\* clears the mark and calls hostDisconnected (the listeners are detached,
\* nothing is announced), and the call it made before was not
\* hostDisconnected; in the two other cases it changes nothing.
C32_PollingAlternates ==
    [][\A p \in Providers : Did("poll", p) =>
          /\ (isConnected /\ ~isReady[p]) =>
                /\ isReady'[p]
                /\ polled[p] # "hostConnected" /\ polled'[p] = "hostConnected"
                /\ Listening(p)'
                /\ announced' = <<[context |-> ProviderContext(p), origin |-> ProviderHost(p)]>>
          /\ (~isConnected /\ isReady[p]) =>
                /\ ~isReady'[p]
                /\ polled[p] # "hostDisconnected" /\ polled'[p] = "hostDisconnected"
                /\ ~Listening(p)'
                /\ announced' = <<>>
          /\ (isConnected = isReady[p]) =>
                /\ polled' = polled /\ isReady' = isReady
                /\ listeners' = listeners /\ subs' = subs /\ pvalue' = pvalue
                /\ unsub' = unsub /\ cvalue' = cvalue /\ provided' = provided
                /\ announced' = <<>>
                /\ \A c \in Consumers : calls'[c] = 0]_vars

\* the connectionCallback of a provider that it had connected earlier found
\* the host removed and disconnected the provider, which keeps a subscription
C32_Witness ==
    /\ last = [op |-> "poll", who |-> "P1"]
    /\ ~isConnected /\ ~isReady["P1"]
    /\ polled["P1"] = "hostDisconnected"
    /\ ~Listening("P1")
    /\ SubscribedTo("cS", "P1")

\* the providers whose registry holds the callback of c
RegisteredWith(c) == {p \in Providers : Has(subs[p], c)}

\* C33: between operations, the callback of a subscribing consumer is in the
\* registry of at most one provider, the consumer holds a handle exactly when
\* it is in one, and the handle it holds is the disposer of that entry.
C33_OneRegistrationOneHandle ==
    \A c \in Consumers : Subscribe(c) =>
        /\ Cardinality(RegisteredWith(c)) <= 1
        /\ (unsub[c] # NoHandle) <=> (RegisteredWith(c) # {})
        /\ unsub[c] # NoHandle =>
              /\ RegisteredWith(c) = {unsub[c].p}
              /\ EntryOf(unsub[c].p, c)[1].gen = unsub[c].gen

\* a consumer subscribed to the outer provider was handed to the provider
\* that connected between them: it is in the new provider's registry only and
\* holds its handle, while the consumer outside is still with the outer one
C33_Witness ==
    /\ scn.name = "late"
    /\ last = [op |-> "hostConnected", who |-> "P2"]
    /\ prev["cS"] = "P1"
    /\ RegisteredWith("cS") = {"P2"} /\ SubscribedTo("cS", "P2")
    /\ RegisteredWith("cT") = {"P1"} /\ SubscribedTo("cT", "P1")

\* C34 as stated: a consumer that was subscribed to a provider that handles
\* the announcement of p is afterwards subscribed to exactly one provider, on
\* the nearest element that carries one, which is p when p encloses the
\* consumer and the provider it was subscribed to otherwise
C34_AsStated ==
    [][\A p \in Providers : \A q \in Providers : \A c \in Consumers :
          (Did("hostConnected", p) /\ q \in Handlers' /\ SubscribedTo(c, q)) =>
             \E r \in Providers :
                /\ SubscribedTo(c, r)' /\ RegisteredWith(c)' = {r}
                /\ OnFirstHost(r, c)'
                /\ r = IF Encloses(ProviderHost(p), ConsumerHost(c)) THEN p ELSE q]_vars

\* C34: a consumer that was subscribed to a provider that handles the
\* announcement of p is afterwards subscribed to exactly one provider, and
\* that provider is attached to the first element on the consumer's ancestor
\* path that carries an attached provider of its context; when that element
\* carries one such provider and the handling provider was the consumer's
\* nearest one before, it is p if p encloses the consumer and the same
\* provider otherwise.
C34_SubscriptionKept ==
    [][\A p \in Providers : \A q \in Providers : \A c \in Consumers :
          (Did("hostConnected", p) /\ q \in Handlers' /\ SubscribedTo(c, q)) =>
             \E r \in Providers :
                /\ SubscribedTo(c, r)' /\ RegisteredWith(c)' = {r}
                /\ OnFirstHost(r, c)'
                /\ (Nearest(r, c)' /\ Nearest(q, c))
                      => r = IF Encloses(ProviderHost(p), ConsumerHost(c)) THEN p ELSE q]_vars

\* a provider connected between the outer provider and one of its two
\* subscribers: the outer provider handled the announcement and re-dispatched
\* both requests, the consumer below the new provider is now subscribed to
\* it and the other one is subscribed to the outer provider as before
C34_Witness ==
    /\ scn.name = "late"
    /\ last = [op |-> "hostConnected", who |-> "P2"]
    /\ handlers = <<"P1">>
    /\ Reparented = {"cS", "cT"}
    /\ SubscribedTo("cS", "P2") /\ Nearest("P2", "cS")
    /\ SubscribedTo("cT", "P1") /\ Nearest("P1", "cT")
    /\ EntryOf("P1", "cS") = <<>>

\* C35: hostDisconnected leaves the provider without its listeners and
\* hostConnected leaves it with them; a provider that is without its
\* listeners after a step claimed no request and handled no announcement in
\* it; and the request of a connecting consumer is claimed by the nearest
\* enclosing provider of its context among those with their listeners
\* attached, so by the next one up while a nearer one is disconnected and by
\* the nearer one again once it was connected again.
C35_DisconnectedProviderStepsAside ==
    [][/\ \A p \in Providers :
             /\ Did("hostDisconnected", p) => ~Listening(p)'
             /\ Did("hostConnected", p) => Listening(p)'
             /\ ~Listening(p)' =>
                   /\ p \notin Handlers'
                   /\ \A c \in Consumers : p \notin Claimers(c)'
       /\ \A c \in Consumers : \A q \in Providers :
             (Did("consumerConnected", c) /\ Nearest(q, c)) =>
                /\ claimed'[c] = <<q>>
                /\ cvalue'[c] = pvalue[q]]_vars

\* a consumer that was subscribed to the inner provider connected again
\* after that provider's hostDisconnected: the outer provider claimed the
\* request and the consumer left the inner one
C35_Witness ==
    /\ scn.name = "late"
    /\ last = [op |-> "consumerConnected", who |-> "cS"]
    /\ ~Listening("P2") /\ Listening("P1")
    /\ claimed["cS"] = <<"P1">>
    /\ prev["cS"] = "P2"
    /\ SubscribedTo("cS", "P1")

\* C36: hostDisconnected of a provider changes no registry, no provider's
\* value and nothing of any consumer (value, handle, provided flag), and calls
\* no user callback; and a setValue on a provider whose listeners are
\* detached still reaches every subscribing consumer that holds its handle:
\* the consumer has the new value afterwards, its callback ran once if the
\* value changed, and it is still subscribed.
C36_DisconnectKeepsRegistry ==
    [][\A p \in Providers :
          /\ Did("hostDisconnected", p) =>
                /\ subs' = subs /\ pvalue' = pvalue
                /\ unsub' = unsub /\ cvalue' = cvalue /\ provided' = provided
                /\ \A c \in Consumers : calls'[c] = 0
          /\ \A c \in Consumers :
                (Did("setValue", p) /\ ~Listening(p) /\ SubscribedTo(c, p) /\ Subscribe(c)) =>
                   /\ cvalue'[c] = pvalue'[p]
                   /\ pvalue'[p] # pvalue[p] => (calls'[c] = 1 /\ cbArg'[c] = pvalue'[p])
                   /\ SubscribedTo(c, p)' /\ unsub'[c] = unsub[c]]_vars

\* a provider whose listeners are detached holds a subscription and was set
\* to a new value, which its subscriber received
C36_Witness ==
    /\ scn.name = "late"
    /\ last = [op |-> "setValue", who |-> "P1"]
    /\ ~Listening("P1")
    /\ SubscribedTo("cT", "P1") /\ EntryOf("P1", "cT") # <<>>
    /\ pvalue["P1"] = 2 /\ cvalue["cT"] = 2 /\ calls["cT"] = 1

\* the positions of p among the listeners of element e
AttachedAt(p, e) == {i \in 1..Len(listeners[e]) : listeners[e][i] = p}

\* C37: a provider is never attached to an element twice; a hostConnected
\* of a provider whose listeners are attached, called directly or by the
\* connectionCallback, leaves the listeners as they are (and so does the
\* hostConnected that only announces); and the request of a connecting
\* consumer is claimed once, by its nearest provider, which invokes the user
\* callback at most once and, for a subscribing consumer, exactly once and
\* holds exactly one registry entry for it.
C37_NoDuplicateListeners ==
    [][/\ \A p \in Providers : \A e \in Elements : Cardinality(AttachedAt(p, e)') <= 1
       /\ \A p \in Providers : FastHostConnected(State, p).listeners = listeners
       /\ \A p \in Providers :
             ((Did("hostConnected", p) \/ (Did("poll", p) /\ isConnected)) /\ Listening(p))
                => listeners' = listeners
       /\ \A c \in Consumers : \A q \in Providers :
             (Did("consumerConnected", c) /\ Nearest(q, c)) =>
                /\ claimed'[c] = <<q>>
                /\ calls'[c] <= 1
                /\ Subscribe(c) => (calls'[c] = 1 /\ Len(EntryOf(q, c)') = 1)]_vars

\* the provider was connected by a direct call and then once more by its
\* connectionCallback, with no disconnect since; the consumer that connected
\* afterwards was claimed once, called back once and registered once
C37_Witness ==
    /\ last = [op |-> "consumerConnected", who |-> "cS"]
    /\ again["P1"] /\ isReady["P1"] /\ Listening("P1")
    /\ listeners[ProviderHost("P1")] = <<"P1">>
    /\ claimed["cS"] = <<"P1">> /\ calls["cS"] = 1
    /\ Len(subs["P1"]) = 1 /\ SubscribedTo("cS", "P1")

\* C38: hostDisconnected of a consumer leaves its provided flag and its value
\* as they were; the provided flag of a one-shot consumer, once set, stays
\* set, and its user callback is invoked in a step only if the flag was
\* clear before it, and then once, so at most once in all; and every connect
\* of a consumer whose request has a nearest provider stores that provider's
\* current value.
C38_OneShotCalledOnce ==
    [][\A c \in Consumers :
          /\ Did("consumerDisconnected", c) =>
                (provided'[c] = provided[c] /\ cvalue'[c] = cvalue[c])
          /\ ~Subscribe(c) =>
                /\ provided[c] => (provided'[c] /\ calls'[c] = 0)
                /\ calls'[c] <= 1
                /\ calls'[c] = 1 => provided'[c]
          /\ \A q \in Providers :
                (Did("consumerConnected", c) /\ Nearest(q, c)) => cvalue'[c] = pvalue[q]]_vars

\* a one-shot consumer that was provided earlier connected again after the
\* provider's value changed: it stored the new value and its user callback,
\* last invoked with the old one, did not run
C38_Witness ==
    /\ scn.name = "plain"
    /\ last = [op |-> "consumerConnected", who |-> "cO"]
    /\ provided["cO"] /\ calls["cO"] = 0
    /\ claimed["cO"] = <<"P1">>
    /\ cvalue["cO"] = pvalue["P1"] /\ cbArg["cO"] # cvalue["cO"]
    /\ unsub["cO"] = NoHandle

====
